---- MODULE Spec2Model ----
(***************************************************************************)
(* Test Flow execution engine (backend/app/services/test_flow_runner.py):  *)
(* the DAG builder, the main walk of run_test_flow_stream, the branch      *)
(* resolver and the loop executor, as a state machine over small flows.    *)
(***************************************************************************)
EXTENDS Integers, Sequences, FiniteSets, TLC

\* ------------------------------------------------------------------ bounds
NumNodes == 3
MaxEdges == 3
MaxCount == 2
MaxIter == 2

Nodes == 1..NumNodes

\* Python's None
Null == "null"

\* ------------------------------------------------------------ sequences
RECURSIVE SeqToSet(_)
SeqToSet(s) == IF s = <<>> THEN {} ELSE {Head(s)} \cup SeqToSet(Tail(s))

InSeq(x, s) == \E i \in 1..Len(s) : s[i] = x

IndexOf(x, s) == CHOOSE i \in 1..Len(s) : s[i] = x

Min(a, b) == IF a <= b THEN a ELSE b

\* ------------------------------------------------------- the flow's graph
\* TestFlowEdge: id, source_node_id, target_node_id, source_handle.
Edge(i, s, t, h) ==
    [id |-> i, source_node_id |-> s, target_node_id |-> t, source_handle |-> h]

\* outgoing[nid] / incoming[nid]: the edges in the order of flow.edges.
OutgoingOf(E, nid) == SelectSeq(E, LAMBDA e : e.source_node_id = nid)

IncomingOf(E, nid) == SelectSeq(E, LAMBDA e : e.target_node_id = nid)

NonGroup(N) == {nid \in DOMAIN N : N[nid].node_type # "group"}

\* ----------------------------------------------- _topological_sort (Kahn)
\* The inner for loop over outgoing[nid]: decrement the target's in-degree and
\* enqueue it when it reaches zero.
\* Relax as it would be if a target were enqueued on its first decrement.
RECURSIVE RelaxEager(_, _, _)
RelaxEager(out, indeg, queue) ==
    IF out = <<>> THEN [in_degree |-> indeg, queue |-> queue]
    ELSE LET target == Head(out).target_node_id IN
         IF target \in DOMAIN indeg
         THEN LET d == indeg[target] - 1 IN
              RelaxEager(Tail(out), [indeg EXCEPT ![target] = d],
                         IF d >= 0 /\ ~InSeq(target, queue)
                         THEN Append(queue, target) ELSE queue)
         ELSE RelaxEager(Tail(out), indeg, queue)

RECURSIVE Relax(_, _, _)
Relax(out, indeg, queue) ==
    IF out = <<>> THEN [in_degree |-> indeg, queue |-> queue]
    ELSE LET target == Head(out).target_node_id IN
         IF target \in DOMAIN indeg
         THEN LET d == indeg[target] - 1 IN
              Relax(Tail(out), [indeg EXCEPT ![target] = d],
                    IF d = 0 THEN Append(queue, target) ELSE queue)
         ELSE Relax(Tail(out), indeg, queue)

RECURSIVE KahnLoop(_, _, _, _, _)
KahnLoop(queue, order, indeg, N, E) ==
    IF queue = <<>> THEN order
    ELSE LET nid == Head(queue)
             r == Relax(OutgoingOf(E, nid), indeg, Tail(queue))
         IN KahnLoop(r.queue, Append(order, nid), r.in_degree, N, E)

\* The nodes of a set in the iteration order of the `nodes` dict (1, 2, ...).
RECURSIVE InDictOrder(_, _)
InDictOrder(S, n) ==
    IF S = {} THEN <<>>
    ELSE (IF n \in S THEN <<n>> ELSE <<>>) \o InDictOrder(S \ {n}, n + 1)

\* _topological_sort as it would be without the cycle detection of lines 58-65.
TopologicalSortUnchecked(N, E) ==
    LET non_group == NonGroup(N)
        in_degree == [nid \in DOMAIN N |-> Len(IncomingOf(E, nid))]
        seeds == InDictOrder({nid \in non_group : in_degree[nid] = 0}, 1)
        order == KahnLoop(seeds, <<>>, in_degree, N, E)
    IN [ok |-> TRUE, order |-> order, unvisited |-> {}]

\* Returns the order, or raises ValueError (ok = FALSE) when a non-group node
\* was never appended.
TopologicalSort(N, E) ==
    LET non_group == NonGroup(N)
        in_degree == [nid \in DOMAIN N |-> Len(IncomingOf(E, nid))]
        seeds == InDictOrder({nid \in non_group : in_degree[nid] = 0}, 1)
        order == KahnLoop(seeds, <<>>, in_degree, N, E)
        unvisited == non_group \ SeqToSet(order)
    IN [ok |-> unvisited = {}, order |-> order, unvisited |-> unvisited]

\* ------------------------------------------------------- Python dicts
\* A dict is a function; d.get(k) is None for a missing key.
Has(d, k) == k \in DOMAIN d

\* d.update(u) as it would be if the keys already in d kept their values.
UpdateKeepFirst(d, u) ==
    [k \in DOMAIN d \cup DOMAIN u |-> IF k \in DOMAIN d THEN d[k] ELSE u[k]]

\* d.update(u)
Update(d, u) == [k \in DOMAIN d \cup DOMAIN u |-> IF k \in DOMAIN u THEN u[k] ELSE d[k]]

EmptyDict == [k \in {} |-> Null]

\* bool(result.get("branch_taken")): the key is there and the string not empty.
BranchOf(r) == IF Has(r, "branch_taken") THEN r.branch_taken ELSE Null

VariablesOf(r) == IF Has(r, "variables") THEN r.variables ELSE EmptyDict

Targets(es) == [i \in 1..Len(es) |-> es[i].target_node_id]

Sources(es) == [i \in 1..Len(es) |-> es[i].source_node_id]

\* ------------------------------------------- _find_upstream_http_result
\* Backward BFS over incoming edges; the first visited node that has a result
\* and is an http_request or collection node. <<>> stands for None.
RECURSIVE UpstreamBFS(_, _, _, _, _)
UpstreamBFS(queue, visited, E, N, nr) ==
    IF queue = <<>> THEN <<>>
    ELSE LET src == Head(queue) IN
         IF src \in visited THEN UpstreamBFS(Tail(queue), visited, E, N, nr)
         ELSE IF /\ src \in DOMAIN nr
                 /\ src \in DOMAIN N
                 /\ N[src].node_type \in {"http_request", "collection"}
              THEN <<nr[src]>>
              ELSE UpstreamBFS(Tail(queue) \o Sources(IncomingOf(E, src)),
                               visited \cup {src}, E, N, nr)

FindUpstreamHttpResult(node_id, E, N, nr) ==
    UpstreamBFS(Sources(IncomingOf(E, node_id)), {}, E, N, nr)

\* ------------------------------------------------ _mark_inactive_branch
\* Forward BFS from a list of start nodes: the set of nodes reached.
RECURSIVE ReachBFS(_, _, _)
ReachBFS(queue, reached, E) ==
    IF queue = <<>> THEN reached
    ELSE LET nid == Head(queue) IN
         IF nid \in reached THEN ReachBFS(Tail(queue), reached, E)
         ELSE ReachBFS(Tail(queue) \o Targets(OutgoingOf(E, nid)),
                       reached \cup {nid}, E)

\* The inactive handle as it would be with the two handles exchanged.
InactiveHandleSwapped(branch_taken) ==
    IF branch_taken = "true" THEN "source-true" ELSE "source-false"

InactiveHandle(branch_taken) ==
    IF branch_taken = "true" THEN "source-false" ELSE "source-true"

InactiveStarts(cid, branch_taken, E) ==
    Targets(SelectSeq(OutgoingOf(E, cid),
                      LAMBDA e : e.source_handle = InactiveHandle(branch_taken)))

ActiveStarts(cid, branch_taken, E) ==
    Targets(SelectSeq(OutgoingOf(E, cid),
                      LAMBDA e : e.source_handle # InactiveHandle(branch_taken)))

\* The nodes _mark_inactive_branch adds to `skipped`.
InactiveOnly(cid, branch_taken, E) ==
    ReachBFS(InactiveStarts(cid, branch_taken, E), {}, E)
        \ ReachBFS(ActiveStarts(cid, branch_taken, E), {}, E)

MarkInactiveBranch(cid, branch_taken, E, skipped) ==
    skipped \cup InactiveOnly(cid, branch_taken, E)

\* ------------------------------------------------------------ executors
\* What an executor call does: it returns a result dict or raises.
Returned(r) == [raised |-> FALSE, result |-> r]

Raised == [raised |-> TRUE, result |-> EmptyDict]

\* The expressions of condition nodes and loop conditions (Python source).
ExprTrue == "True"
ExprFalse == "False"
ExprIter == "iteration < 2"
ExprStatus == "status_code == 200"
ExprVar == "vars.get('k') == 'v'"
ExprUndef == "undefined_name"

\* eval(expression, {"__builtins__": {}}, context): "true" / "false" for the
\* truth value of the result, "raise" for an exception. context.names are the
\* keys of the context dict; a name that is not a key is a NameError.
EvalExpr(expr, ctx) ==
    CASE expr = ExprTrue -> "true"
      [] expr = ExprFalse -> "false"
      [] expr = ExprIter ->
            IF "iteration" \notin ctx.names THEN "raise"
            ELSE IF ctx.iteration < 2 THEN "true" ELSE "false"
      [] expr = ExprStatus ->
            IF "status_code" \notin ctx.names THEN "raise"
            ELSE IF ctx.status_code = <<200>> THEN "true" ELSE "false"
      [] expr = ExprVar ->
            IF "vars" \notin ctx.names THEN "raise"
            ELSE IF Has(ctx.vars, "k") /\ ctx.vars["k"] = "v" THEN "true" ELSE "false"
      [] OTHER -> "raise"

\* upstream.get("status_code"): <<>> for None.
StatusCodeOf(r) == IF Has(r, "status_code") THEN <<r.status_code>> ELSE <<>>

\* _exec_condition. config.get("expression").strip() raises for a value that is
\* not a string (Null), before the try block.
ExecCondition(config, fv, nr, E, node_id, N, iteration) ==
    IF config.expression = Null THEN Raised
    ELSE LET upstream == FindUpstreamHttpResult(node_id, E, N, nr)
             eval_context ==
                 [vars |-> fv,
                  names |-> {"vars", "status_code", "response_body",
                             "response_headers", "elapsed_ms", "iteration"},
                  status_code |-> IF upstream # <<>> THEN StatusCodeOf(upstream[1])
                                  ELSE <<>>,
                  iteration |-> iteration]
             v == EvalExpr(config.expression, eval_context)
         IN IF v = "raise"
            THEN Returned([status |-> "error", branch_taken |-> "false"])
            ELSE Returned([status |-> "success", node_type |-> "condition",
                           branch_taken |-> v])

\* Python values as _compare meets them. `actual` is <<>> for None and <<v>>
\* otherwise, v one of [int |-> n], [str |-> s] or [big |-> TRUE]: an int
\* beyond the range of a float, as json.loads yields for a long digit string.
\* The characters of the strings the flows use.
Chars(s) ==
    CASE s = "" -> <<>>
      [] s = "200" -> <<"2", "0", "0">>
      [] s = "500" -> <<"5", "0", "0">>
      [] s = "20" -> <<"2", "0">>
      [] s = "200.0" -> <<"2", "0", "0", ".", "0">>
      [] s = "abc" -> <<"a", "b", "c">>
      [] s = "bc" -> <<"b", "c">>
      [] s = "(" -> <<"(">>
      [] OTHER -> <<s>>

DigitOf(c) ==
    CASE c = "0" -> 0 [] c = "1" -> 1 [] c = "2" -> 2 [] c = "3" -> 3 [] c = "4" -> 4
      [] c = "5" -> 5 [] c = "6" -> 6 [] c = "7" -> 7 [] c = "8" -> 8 [] c = "9" -> 9
      [] OTHER -> -1

RECURSIVE ParseDigits(_, _)
ParseDigits(cs, acc) ==
    IF cs = <<>> THEN <<acc>>
    ELSE IF DigitOf(Head(cs)) < 0 THEN <<>>
    ELSE ParseDigits(Tail(cs), acc * 10 + DigitOf(Head(cs)))

\* float(str): <<>> (ValueError) when the string is no number. The strings in
\* use are digit strings, possibly followed by ".0".
ParseFloat(str) ==
    LET cs == Chars(str)
        n == Len(cs)
    IN IF n = 0 THEN <<>>
       ELSE IF n >= 3 /\ cs[n - 1] = "." /\ cs[n] = "0"
       THEN ParseDigits(SubSeq(cs, 1, n - 2), 0)
       ELSE ParseDigits(cs, 0)

\* float(actual) for a value that converts without OverflowError.
FloatOf(v) == IF Has(v, "int") THEN <<v.int>> ELSE ParseFloat(v.str)

\* str(actual).
StrOf(v) ==
    IF Has(v, "str") THEN v.str
    ELSE CASE v.int = 200 -> "200" [] v.int = 500 -> "500" [] OTHER -> "?"

\* expected in a_str.
IsSubstring(expected, a_str) ==
    LET e == Chars(expected)
        a == Chars(a_str)
    IN \E i \in 1..(Len(a) - Len(e) + 1) : SubSeq(a, i, i + Len(e) - 1) = e

\* Lines 459-460 as they would be if None equalled whatever eq is given.
CompareNoneLoose(expected, operator) == operator = "eq"

\* Lines 459-460: actual is None.
CompareNone(expected, operator) == operator = "eq" /\ expected = ""

\* Lines 466-477: both sides are numbers and the operator is one of the six.
CompareNumeric(a_num, e_num, operator) ==
    CASE operator = "eq" -> a_num = e_num
      [] operator = "neq" -> a_num # e_num
      [] operator = "gt" -> a_num > e_num
      [] operator = "lt" -> a_num < e_num
      [] operator = "gte" -> a_num >= e_num
      [] operator = "lte" -> a_num <= e_num

\* Lines 481-493: string comparison; a pattern is a literal text or "(", for
\* which re.search raises re.error (caught at line 495); any other operator
\* is False.
CompareString(a_str, expected, operator) ==
    CASE operator = "eq" -> a_str = expected
      [] operator = "neq" -> a_str # expected
      [] operator = "contains" -> IsSubstring(expected, a_str)
      [] operator = "not_contains" -> ~IsSubstring(expected, a_str)
      [] operator = "regex" -> expected # "(" /\ IsSubstring(expected, a_str)
      [] OTHER -> FALSE

\* _compare. float(actual) of an int too large for a float raises
\* OverflowError, which the inner except (ValueError, TypeError) does not
\* catch: the outer except returns False.
Compare(actual, expected, operator) ==
    IF actual = <<>> THEN CompareNone(expected, operator)
    ELSE IF Has(actual[1], "big") THEN FALSE
    ELSE LET a_num == FloatOf(actual[1])
             e_num == ParseFloat(expected)
         IN IF a_num # <<>> /\ e_num # <<>>
               /\ operator \in {"eq", "neq", "gt", "lt", "gte", "lte"}
            THEN CompareNumeric(a_num[1], e_num[1], operator)
            ELSE CompareString(StrOf(actual[1]), expected, operator)

\* json.loads(body): <<>> for JSONDecodeError. A body is [json |-> dict] or
\* [text |-> s] with s no JSON document.
JsonLoads(body) == IF Has(body, "json") THEN <<body.json>> ELSE <<>>

\* The keys a path names, after the leading "$." is dropped and the rest split.
PathParts(path) ==
    CASE path = "$.n" -> <<"n">>
      [] path = "$.m" -> <<"m">>
      [] OTHER -> <<path>>

\* _resolve_json_path on a dict of values: [raised |-> TRUE] for a KeyError.
RECURSIVE ResolveJsonPath(_, _)
ResolveJsonPath(current, parts) ==
    IF parts = <<>> THEN [raised |-> FALSE, value |-> current]
    ELSE IF Head(parts) \in DOMAIN current
    THEN IF Tail(parts) = <<>>
         THEN [raised |-> FALSE, value |-> current[Head(parts)]]
         ELSE ResolveJsonPath(current[Head(parts)], Tail(parts))
    ELSE [raised |-> TRUE]

\* upstream.get("response_body", "") or "".
ResponseBodyOf(upstream) ==
    IF Has(upstream, "response_body") THEN upstream.response_body ELSE [text |-> ""]

\* Lines 412-419: the actual value of a json_path assertion, None when the body
\* is no JSON or the lookup raises.
JsonPathActual(upstream, field) ==
    LET data == JsonLoads(ResponseBodyOf(upstream)) IN
    IF data = <<>> THEN <<>>
    ELSE LET r == ResolveJsonPath(data[1], PathParts(field)) IN
         IF r.raised THEN <<>> ELSE r.value

\* One configured assertion of type status_code or json_path evaluated against
\* upstream; any other type here is the else branch (passed = False).
AssertionPassed(a, upstream) ==
    CASE a.type = "status_code" ->
            LET sc == StatusCodeOf(upstream) IN
            Compare(IF sc = <<>> THEN <<>> ELSE <<[int |-> sc[1]]>>,
                    a.expected, a.operator)
      [] a.type = "json_path" ->
            Compare(JsonPathActual(upstream, a.field), a.expected, a.operator)
      [] OTHER -> FALSE

\* An entry of config["assertions"] that is not a dict.
NotADict == [not_a_dict |-> TRUE]

\* _exec_assertion. An entry of `assertions` that is not a dict makes
\* assertion.get raise, outside the try block, once an upstream result exists.
ExecAssertion(config, nr, E, node_id, N) ==
    LET assertions == config.assertions IN
    IF assertions = <<>>
    THEN Returned([status |-> "success", node_type |-> "assertion",
                   assertion_results |-> <<>>])
    ELSE LET upstream == FindUpstreamHttpResult(node_id, E, N, nr) IN
         IF upstream = <<>>
         THEN Returned([status |-> "error", assertion_results |-> <<>>,
                        branch_taken |-> "false"])
         ELSE IF \E i \in 1..Len(assertions) : assertions[i] = NotADict
         THEN Raised
         ELSE IF upstream[1].status = "error"
         THEN Returned([status |-> "error", node_type |-> "assertion",
                        assertion_results |->
                            [i \in 1..Len(assertions) |->
                                [passed |-> FALSE, error |-> "Upstream request failed"]],
                        branch_taken |-> "false"])
         ELSE LET results == [i \in 1..Len(assertions) |->
                                 LET passed == AssertionPassed(assertions[i], upstream[1])
                                 IN [passed |-> passed,
                                     error |-> IF passed THEN Null ELSE "Expected"]]
                  all_passed == \A i \in 1..Len(results) : results[i].passed
              IN Returned([status |-> IF all_passed THEN "success" ELSE "error",
                           node_type |-> "assertion",
                           assertion_results |-> results,
                           branch_taken |-> IF all_passed THEN "true" ELSE "false"])

\* _exec_set_variable: a value is a literal, one {{name}} placeholder, which
\* is replaced by flow_vars[name] when the name is in the store, or a text of
\* several such parts: re.sub replaces every match on its own.
\* The replacement as it would be with flow_vars.get(name, ""): an unknown
\* name is replaced by the empty string.
ResolveTokenBlank(token, fv) ==
    IF Has(token, "ref")
    THEN IF Has(fv, token.ref) THEN fv[token.ref] ELSE ""
    ELSE token.lit

ResolveToken(token, fv) ==
    IF Has(token, "ref")
    THEN IF Has(fv, token.ref) THEN fv[token.ref] ELSE "{{" \o token.ref \o "}}"
    ELSE token.lit

RECURSIVE ResolveParts(_, _)
ResolveParts(parts, fv) ==
    IF parts = <<>> THEN ""
    ELSE ResolveToken(Head(parts), fv) \o ResolveParts(Tail(parts), fv)

Resolve(value, fv) ==
    IF Has(value, "parts") THEN ResolveParts(value.parts, fv)
    ELSE ResolveToken(value, fv)

RECURSIVE Assign(_, _, _)
Assign(assignments, fv, new_vars) ==
    IF assignments = <<>> THEN new_vars
    ELSE LET a == Head(assignments) IN
         Assign(Tail(assignments), fv,
                IF a.key = "" THEN new_vars
                ELSE Update(new_vars, (a.key :> Resolve(a.value, fv))))

ExecSetVariable(config, fv) ==
    Returned([status |-> "success", node_type |-> "set_variable",
              variables |-> Assign(config.assignments, fv, EmptyDict)])

\* _exec_script: an empty script succeeds with no variables; otherwise the
\* external Script Evaluator returns variables, or it (or the schema) raises.
ExecScript(config) ==
    IF config.script = ""
    THEN {Returned([status |-> "success", node_type |-> "script",
                    variables |-> EmptyDict])}
    ELSE {Returned([status |-> "success", node_type |-> "script", variables |-> v]) :
              v \in {EmptyDict, "s" :> "1"}} \cup {Raised}

\* _exec_http_request against the external Request Executor: a response with a
\* status code, the "Request not found" result, or an exception of the proxy.
HttpOutcomes ==
    {Returned([status |-> "success", node_type |-> "http_request",
               status_code |-> c, variables |-> EmptyDict]) : c \in {200, 500}}
        \cup {Returned([status |-> "error"]), Raised}

\* The bodies the Request Executor may answer with to a request for a JSON
\* document: a document whose field n is a number, a numeric text, another
\* text, null or an int beyond the range of a float, one without n, or no JSON.
JsonBodies ==
    {[json |-> ("n" :> v)] :
         v \in {<<[int |-> 200]>>, <<[str |-> "200"]>>, <<[str |-> "abc"]>>, <<>>,
                <<[big |-> TRUE]>>}}
        \cup {[json |-> ("m" :> <<[int |-> 200]>>)], [text |-> "oops"]}

\* _exec_http_request for a node whose request is for a JSON document, or for
\* any other request.
HttpOutcomesOf(config) ==
    IF Has(config, "request")
    THEN {Returned([status |-> "success", node_type |-> "http_request",
                    status_code |-> 200, variables |-> EmptyDict,
                    response_body |-> b]) : b \in JsonBodies}
    ELSE HttpOutcomes

\* --------------------------------------------- _exec_loop: the loop body
LoopBodyStarts(lid, E) ==
    Targets(SelectSeq(OutgoingOf(E, lid), LAMBDA e : e.source_handle = "source-loop"))

DoneTargets(lid, E) ==
    Targets(SelectSeq(OutgoingOf(E, lid), LAMBDA e : e.source_handle # "source-loop"))

\* BFS from the body starts that stops at done targets and at the loop node;
\* loop_body_nodes in the order of discovery.
RECURSIVE BodyBFS(_, _, _, _, _, _)
BodyBFS(bfs_queue, loop_body_nodes, done_set, lid, N, E) ==
    IF bfs_queue = <<>> THEN loop_body_nodes
    ELSE LET nid == Head(bfs_queue) IN
         IF InSeq(nid, loop_body_nodes) \/ nid \in done_set \/ nid = lid
         THEN BodyBFS(Tail(bfs_queue), loop_body_nodes, done_set, lid, N, E)
         ELSE IF nid \notin DOMAIN N
         THEN BodyBFS(Tail(bfs_queue), loop_body_nodes, done_set, lid, N, E)
         ELSE BodyBFS(Tail(bfs_queue) \o Targets(OutgoingOf(E, nid)),
                      Append(loop_body_nodes, nid), done_set, lid, N, E)

LoopBodyNodes(lid, N, E) ==
    BodyBFS(LoopBodyStarts(lid, E), <<>>, SeqToSet(DoneTargets(lid, E)), lid, N, E)

\* The mini topological order of the body: in-degree over edges whose source
\* is a body node.
RECURSIVE RelaxBody(_, _, _, _)
RelaxBody(out, indeg, queue, body_set) ==
    IF out = <<>> THEN [in_degree |-> indeg, queue |-> queue]
    ELSE LET tid == Head(out).target_node_id IN
         IF tid \in body_set
         THEN LET d == indeg[tid] - 1 IN
              RelaxBody(Tail(out), [indeg EXCEPT ![tid] = d],
                        IF d = 0 THEN Append(queue, tid) ELSE queue, body_set)
         ELSE RelaxBody(Tail(out), indeg, queue, body_set)

RECURSIVE BodyKahn(_, _, _, _, _)
BodyKahn(topo_queue, body_order, indeg, body_set, E) ==
    IF topo_queue = <<>> THEN body_order
    ELSE LET nid == Head(topo_queue)
             r == RelaxBody(OutgoingOf(E, nid), indeg, Tail(topo_queue), body_set)
         IN BodyKahn(r.queue, Append(body_order, nid), r.in_degree, body_set, E)

\* The body order as it would be without the mini topological sort: the order
\* in which the BFS found the nodes.
BodyOrderAsFound(loop_body_nodes, E) == loop_body_nodes

BodyOrder(loop_body_nodes, E) ==
    LET body_set == SeqToSet(loop_body_nodes)
        body_in_degree ==
            [nid \in body_set |->
                Len(SelectSeq(IncomingOf(E, nid),
                              LAMBDA e : e.source_node_id \in body_set))]
        topo_queue == SelectSeq(loop_body_nodes, LAMBDA nid : body_in_degree[nid] = 0)
    IN BodyKahn(topo_queue, <<>>, body_in_degree, body_set, E)

\* The iteration count as it would be if max_iterations did not cap `count`.
LoopIterationsUncapped(config) ==
    IF config.mode = "count" THEN config.count ELSE config.max_iterations

\* iterations: min(count, max_iterations) in mode "count", else max_iterations.
LoopIterations(config) ==
    IF config.mode = "count" THEN Min(config.count, config.max_iterations)
    ELSE config.max_iterations

\* Branching within the loop body: both BFS confined to body_set.
RECURSIVE ReachInBody(_, _, _, _)
ReachInBody(q, reached, body_set, E) ==
    IF q = <<>> THEN reached
    ELSE LET sid == Head(q) IN
         IF sid \in reached \/ sid \notin body_set
         THEN ReachInBody(Tail(q), reached, body_set, E)
         ELSE ReachInBody(
                  Tail(q) \o SelectSeq(Targets(OutgoingOf(E, sid)),
                                       LAMBDA t : t \in body_set),
                  reached \cup {sid}, body_set, E)

\* The resolution in a loop body as it would be with the BFS of the main walk,
\* which is not confined to body_set.
BodyInactiveUnconfined(body_nid, branch_taken, body_set, E) ==
    InactiveOnly(body_nid, branch_taken, E)

BodyInactiveOnly(body_nid, branch_taken, body_set, E) ==
    LET out == SelectSeq(OutgoingOf(E, body_nid),
                         LAMBDA e : e.target_node_id \in body_set)
        inactive_starts ==
            Targets(SelectSeq(out, LAMBDA e :
                        e.source_handle = InactiveHandle(branch_taken)))
        active_starts ==
            Targets(SelectSeq(out, LAMBDA e :
                        e.source_handle # InactiveHandle(branch_taken)))
    IN ReachInBody(inactive_starts, {}, body_set, E)
           \ ReachInBody(active_starts, {}, body_set, E)

\* The loop condition after a pass: the context has the HTTP keys only when the
\* pass produced an http_request / collection result.
LoopCondition(config, fv, i, last_http_result) ==
    EvalExpr(config.condition,
             [vars |-> fv,
              names |-> {"vars", "iteration"} \cup
                        (IF last_http_result # <<>>
                         THEN {"status_code", "response_body", "response_headers",
                               "elapsed_ms"}
                         ELSE {}),
              status_code |-> IF last_http_result # <<>>
                              THEN StatusCodeOf(last_http_result[1]) ELSE <<>>,
              iteration |-> i])

\* ------------------------------------------------------- _build_summary
AssertionResultsOf(r) ==
    IF Has(r, "assertion_results") THEN r.assertion_results ELSE <<>>

CountPassed(ars, want) ==
    Cardinality({i \in 1..Len(ars) : ars[i].passed = want})

\* The assertion counters over the results that are not skipped:
\* <<total_assertions, passed_assertions, failed_assertions>>.
RECURSIVE CountAssertions(_, _)
CountAssertions(S, nr) ==
    IF S = {} THEN <<0, 0, 0>>
    ELSE LET nid == CHOOSE y \in S : TRUE
             ars == AssertionResultsOf(nr[nid])
             rest == CountAssertions(S \ {nid}, nr)
         IN IF nr[nid].status = "skipped" THEN rest
            ELSE <<rest[1] + Len(ars), rest[2] + CountPassed(ars, TRUE),
                   rest[3] + CountPassed(ars, FALSE)>>

\* _build_summary as it would be if skipped results were left out of total.
BuildSummarySkippedUncounted(nr) ==
    LET a == CountAssertions(DOMAIN nr, nr) IN
    [total_nodes |-> Cardinality({nid \in DOMAIN nr : nr[nid].status # "skipped"}),
     passed_count |-> Cardinality({nid \in DOMAIN nr : nr[nid].status = "success"}),
     failed_count |-> Cardinality({nid \in DOMAIN nr : nr[nid].status = "error"}),
     skipped_count |-> Cardinality({nid \in DOMAIN nr : nr[nid].status = "skipped"}),
     total_assertions |-> a[1],
     passed_assertions |-> a[2],
     failed_assertions |-> a[3]]

BuildSummary(nr) ==
    LET a == CountAssertions(DOMAIN nr, nr) IN
    [total_nodes |-> Cardinality(DOMAIN nr),
     passed_count |-> Cardinality({nid \in DOMAIN nr : nr[nid].status = "success"}),
     failed_count |-> Cardinality({nid \in DOMAIN nr : nr[nid].status = "error"}),
     skipped_count |-> Cardinality({nid \in DOMAIN nr : nr[nid].status = "skipped"}),
     total_assertions |-> a[1],
     passed_assertions |-> a[2],
     failed_assertions |-> a[3]]

ZeroSummary ==
    [total_nodes |-> 0, passed_count |-> 0, failed_count |-> 0, skipped_count |-> 0,
     total_assertions |-> 0, passed_assertions |-> 0, failed_assertions |-> 0]

\* ------------------------------------------------------------- the state
VARIABLES
    nodes,            \* {n.id: n for n in flow.nodes}: node_type and config
    edges,            \* list(flow.edges)
    flow_variables,   \* flow.variables, the initial variables
    pc,               \* where run_test_flow_stream stands
    execution_order,  \* the result of _topological_sort
    pos,              \* the index of the main for loop in execution_order
    flow_vars,        \* the Variable Store
    node_results,     \* node id -> result dict
    skipped_nodes,    \* the outer skip set
    exec_index,       \* the counter written to result["execution_order"]
    events,           \* the SSE events yielded so far
    loop,             \* the frame of a running _exec_loop, <<>> when none
    calls,            \* the executor invocations so far (the dispatch log)
    previous,         \* <<>>, or what an earlier run of the same flow produced
    other             \* <<>>, or the locals of a second, suspended run

vars == <<nodes, edges, flow_variables, pc, execution_order, pos, flow_vars,
          node_results, skipped_nodes, exec_index, events, loop, calls, previous,
          other>>

\* What no step of a run changes: the flow, the record of an earlier run and
\* the locals of another run.
flowVars == <<nodes, edges, flow_variables, previous, other>>

\* ------------------------------------------------------------ the events
EdgeActiveEvents(node_id, skipped) ==
    LET live == SelectSeq(IncomingOf(edges, node_id),
                          LAMBDA e : e.source_node_id \notin skipped)
    IN [i \in 1..Len(live) |-> [type |-> "edge_active", edge_id |-> live[i].id]]

NodeStartEvent(node_id) ==
    [type |-> "node_start", node_id |-> node_id,
     node_type |-> nodes[node_id].node_type]

NodeSkippedEvent(node_id) ==
    [type |-> "node_skipped", node_id |-> node_id,
     node_type |-> nodes[node_id].node_type, reason |-> "branch_not_taken"]

NodeResultEvent(node_id, r) ==
    [type |-> "node_result", node_id |-> node_id, result |-> r]

\* --------------------------------------------- run_test_flow_stream: build
BuildOk ==
    /\ pc = "build"
    /\ LET ts == TopologicalSort(nodes, edges) IN
       /\ ts.ok
       /\ execution_order' = ts.order
       /\ events' = <<[type |-> "start",
                       total_nodes |-> Len(SelectSeq(ts.order,
                           LAMBDA nid : nodes[nid].node_type # "group"))]>>
    /\ flow_vars' = flow_variables
    /\ pc' = "walk"
    /\ UNCHANGED <<flowVars, pos, node_results, skipped_nodes, exec_index, loop, calls>>

BuildCycle ==
    /\ pc = "build"
    /\ ~TopologicalSort(nodes, edges).ok
    /\ events' = <<[type |-> "error"],
                   [type |-> "done", summary |-> ZeroSummary,
                    final_variables |-> EmptyDict]>>
    /\ pc' = "done"
    /\ UNCHANGED <<flowVars, execution_order, pos, flow_vars, node_results,
                   skipped_nodes, exec_index, loop, calls>>

\* ------------------------------------------ run_test_flow_stream: the walk
\* The dispatch switch shared by the main walk and the loop body, for the node
\* types whose executors they both call.
ExecutorOutcomes(node_id, fv, nr, iteration) ==
    LET node == nodes[node_id] IN
    CASE node.node_type = "http_request" -> HttpOutcomesOf(node.config)
      [] node.node_type = "condition" ->
            {ExecCondition(node.config, fv, nr, edges, node_id, nodes, iteration)}
      [] node.node_type = "assertion" ->
            {ExecAssertion(node.config, nr, edges, node_id, nodes)}
      [] node.node_type = "set_variable" -> {ExecSetVariable(node.config, fv)}
      [] node.node_type = "script" -> ExecScript(node.config)
      [] OTHER -> {}

KnownTypes == {"http_request", "condition", "assertion", "set_variable", "script"}

\* The external collaborators (Request Executor, Script Evaluator) answer a
\* call they have answered in an earlier run of the flow as they did then.
Stubbed(node_id, by, iteration, outs) ==
    IF previous = <<>> \/ nodes[node_id].node_type \notin {"http_request", "script"}
    THEN outs
    ELSE LET same == {k \in 1..Len(previous[1].calls) :
                         /\ previous[1].calls[k].node_id = node_id
                         /\ previous[1].calls[k].by = by
                         /\ previous[1].calls[k].iteration = iteration}
         IN {o \in outs : \A k \in same : previous[1].calls[k].response = o}

\* The else branch of the main switch: an unknown node type is an error result.
MainOutcomes(node_id) ==
    IF nodes[node_id].node_type \in KnownTypes
    THEN Stubbed(node_id, 0, 0, ExecutorOutcomes(node_id, flow_vars, node_results, 0))
    ELSE {Returned([status |-> "error"])}

\* try / except Exception around the switch.
Caught(out) == IF out.raised THEN [status |-> "error"] ELSE out.result

\* What the walk adds to every result before storing it.
Stamped(r, node_id) ==
    Update(r, [execution_order |-> exec_index,
               node_type |-> nodes[node_id].node_type])

\* Lines 887-891: branch resolution after a condition / assertion result.
AfterBranch(node_id, result, skipped) ==
    IF nodes[node_id].node_type \in {"condition", "assertion"}
       /\ BranchOf(result) # Null
    THEN MarkInactiveBranch(node_id, BranchOf(result), edges, skipped)
    ELSE skipped

\* One entry of the dispatch log: the node, the caller (0 for the main walk, or
\* the loop node whose _exec_loop dispatched it), the iteration and how the executor ended.
Call(node_id, by, iteration, out) ==
    [node_id |-> node_id, by |-> by, iteration |-> iteration,
     outcome |-> IF out.raised THEN "raise"
                 ELSE IF out.result.status = "error" THEN "error" ELSE "success",
     response |-> out]

AtNode == pc = "walk" /\ pos <= Len(execution_order)

Cur == execution_order[pos]

WalkGroup ==
    /\ AtNode
    /\ nodes[Cur].node_type = "group"
    /\ pos' = pos + 1
    /\ UNCHANGED <<flowVars, pc, execution_order, flow_vars, node_results,
                   skipped_nodes, exec_index, events, loop, calls>>

WalkSkip ==
    /\ AtNode
    /\ nodes[Cur].node_type # "group"
    /\ Cur \in skipped_nodes
    /\ events' = Append(events, NodeSkippedEvent(Cur))
    /\ node_results' = Update(node_results, Cur :> [status |-> "skipped"])
    /\ exec_index' = exec_index + 1
    /\ pos' = pos + 1
    /\ UNCHANGED <<flowVars, pc, execution_order, flow_vars, skipped_nodes, loop, calls>>

\* Lines 873-893: the walk stores and yields the result of the node at Cur and
\* moves on.
StoreResult(out) ==
    LET result == Stamped(Caught(out), Cur) IN
    /\ node_results' = Update(node_results, Cur :> result)
    /\ flow_vars' = Update(flow_vars, VariablesOf(result))
    /\ events' = events \o <<NodeStartEvent(Cur)>>
                        \o EdgeActiveEvents(Cur, skipped_nodes)
                        \o <<NodeResultEvent(Cur, result)>>
    /\ skipped_nodes' = AfterBranch(Cur, result, skipped_nodes)
    /\ calls' = Append(calls, Call(Cur, 0, 0, out))
    /\ exec_index' = exec_index + 1
    /\ pos' = pos + 1
    /\ UNCHANGED <<flowVars, pc, execution_order, loop>>

MayDispatch ==
    /\ AtNode
    /\ nodes[Cur].node_type \notin {"group", "loop"}
    /\ Cur \notin skipped_nodes

\* The dispatch as it would be without the except clause of lines 867-871: an
\* exception of an executor ends the generator.
WalkDispatchUncaught ==
    /\ MayDispatch
    /\ \E out \in MainOutcomes(Cur) :
          IF out.raised
          THEN /\ pc' = "done"
               /\ calls' = Append(calls, Call(Cur, 0, 0, out))
               /\ events' = events \o <<NodeStartEvent(Cur)>>
                                   \o EdgeActiveEvents(Cur, skipped_nodes)
               /\ UNCHANGED <<flowVars, execution_order, pos, flow_vars, node_results,
                              skipped_nodes, exec_index, loop>>
          ELSE StoreResult(out)

WalkDispatch ==
    /\ MayDispatch
    /\ \E out \in MainOutcomes(Cur) : StoreResult(out)

\* The end of the run as it would be if the store were the flow's own
\* variables dict (no copy at line 784): the flow keeps the final variables.
FinishWritesBack ==
    /\ pc = "walk"
    /\ pos > Len(execution_order)
    /\ events' = Append(events, [type |-> "done",
                                 summary |-> BuildSummary(node_results),
                                 final_variables |-> flow_vars])
    /\ pc' = "done"
    /\ flow_variables' = flow_vars
    /\ UNCHANGED <<nodes, edges, previous, other, execution_order, pos, flow_vars,
                   node_results, skipped_nodes, exec_index, loop, calls>>

Finish ==
    /\ pc = "walk"
    /\ pos > Len(execution_order)
    /\ events' = Append(events, [type |-> "done",
                                 summary |-> BuildSummary(node_results),
                                 final_variables |-> flow_vars])
    /\ pc' = "done"
    /\ UNCHANGED <<flowVars, execution_order, pos, flow_vars, node_results,
                   skipped_nodes, exec_index, loop, calls>>

\* ------------------------------------------------------------ _exec_loop
\* The else branch of the loop body's switch: any other node type succeeds.
BodyOutcomes(body_nid, i) ==
    IF nodes[body_nid].node_type \in KnownTypes
    THEN Stubbed(body_nid, loop[1].node, i,
                 ExecutorOutcomes(body_nid, flow_vars, node_results, i))
    ELSE {Returned([status |-> "success", node_type |-> nodes[body_nid].node_type])}

\* Lines 917-983: the frame of _exec_loop before its first iteration.
NewLoopFrame(node_id) ==
    LET config == nodes[node_id].config
        loop_body_nodes == LoopBodyNodes(node_id, nodes, edges)
    IN [node |-> node_id,
        loop_body_nodes |-> loop_body_nodes,
        body_order |-> BodyOrder(loop_body_nodes, edges),
        iterations |-> LoopIterations(config),
        i |-> 0, j |-> 0, completed |-> 0,
        last_http_result |-> <<>>,
        body_skipped |-> {},
        sub_events |-> <<>>,
        phase |-> "next",
        stopped |-> FALSE]

InLoop == pc = "loop" /\ loop # <<>>

Frame == loop[1]

\* The main walk reaches a loop node and calls _exec_loop.
WalkLoopEnter ==
    /\ AtNode
    /\ nodes[Cur].node_type = "loop"
    /\ Cur \notin skipped_nodes
    /\ events' = events \o <<NodeStartEvent(Cur)>> \o EdgeActiveEvents(Cur, skipped_nodes)
    /\ loop' = <<NewLoopFrame(Cur)>>
    /\ calls' = Append(calls, Call(Cur, 0, 0, Returned([status |-> "success"])))
    /\ pc' = "loop"
    /\ UNCHANGED <<flowVars, execution_order, pos, flow_vars, node_results,
                   skipped_nodes, exec_index>>

\* The head of one iteration as it would be if every pass started from the
\* flow's initial variables instead of the store the previous pass left.
LoopIterStartFreshStore ==
    /\ InLoop
    /\ Frame.phase = "next"
    /\ ~Frame.stopped
    /\ Frame.i < Frame.iterations
    /\ LET i == Frame.i + 1 IN
       loop' = <<[Frame EXCEPT
                    !.i = i, !.completed = i, !.j = 1,
                    !.sub_events = Append(@, [type |-> "loop_iteration",
                                              node_id |-> Frame.node,
                                              iteration |-> i,
                                              total |-> Frame.iterations]),
                    !.last_http_result = <<>>,
                    !.body_skipped = {},
                    !.phase = "body"]>>
    /\ flow_vars' = flow_variables
    /\ UNCHANGED <<flowVars, pc, execution_order, pos, node_results,
                   skipped_nodes, exec_index, events, calls>>

\* The head of one iteration as it would be if body_skipped were created once
\* before the for loop: the skip marks of a pass stay for the next.
LoopIterStartKeepSkips ==
    /\ InLoop
    /\ Frame.phase = "next"
    /\ ~Frame.stopped
    /\ Frame.i < Frame.iterations
    /\ LET i == Frame.i + 1 IN
       loop' = <<[Frame EXCEPT
                    !.i = i, !.completed = i, !.j = 1,
                    !.sub_events = Append(@, [type |-> "loop_iteration",
                                              node_id |-> Frame.node,
                                              iteration |-> i,
                                              total |-> Frame.iterations]),
                    !.last_http_result = <<>>,
                    !.phase = "body"]>>
    /\ UNCHANGED <<flowVars, pc, execution_order, pos, flow_vars, node_results,
                   skipped_nodes, exec_index, events, calls>>

\* for i in range(1, iterations + 1): the head of one iteration.
LoopIterStart ==
    /\ InLoop
    /\ Frame.phase = "next"
    /\ ~Frame.stopped
    /\ Frame.i < Frame.iterations
    /\ LET i == Frame.i + 1 IN
       loop' = <<[Frame EXCEPT
                    !.i = i, !.completed = i, !.j = 1,
                    !.sub_events = Append(@, [type |-> "loop_iteration",
                                              node_id |-> Frame.node,
                                              iteration |-> i,
                                              total |-> Frame.iterations]),
                    !.last_http_result = <<>>,
                    !.body_skipped = {},
                    !.phase = "body"]>>
    /\ UNCHANGED <<flowVars, pc, execution_order, pos, flow_vars, node_results,
                   skipped_nodes, exec_index, events, calls>>

AtBodyNode ==
    InLoop /\ Frame.phase = "body" /\ Frame.j <= Len(Frame.body_order)

BodyCur == Frame.body_order[Frame.j]

LoopBodySkip ==
    /\ AtBodyNode
    /\ BodyCur \in Frame.body_skipped
    /\ loop' = <<[Frame EXCEPT
                    !.j = @ + 1,
                    !.sub_events = Append(@, [type |-> "node_skipped",
                                              node_id |-> BodyCur,
                                              iteration |-> Frame.i,
                                              reason |-> "branch_not_taken"])]>>
    /\ UNCHANGED <<flowVars, pc, execution_order, pos, flow_vars, node_results,
                   skipped_nodes, exec_index, events, calls>>

\* Lines 1061-1097: branch resolution confined to the body.
AfterBodyBranch(body_nid, r, body_skipped, body_set) ==
    IF nodes[body_nid].node_type \in {"condition", "assertion"} /\ BranchOf(r) # Null
    THEN body_skipped \cup BodyInactiveOnly(body_nid, BranchOf(r), body_set, edges)
    ELSE body_skipped

LoopBodyDispatch ==
    /\ AtBodyNode
    /\ BodyCur \notin Frame.body_skipped
    /\ \E out \in BodyOutcomes(BodyCur, Frame.i) :
          LET r == Update(Caught(out), [iteration |-> Frame.i]) IN
          /\ flow_vars' = Update(flow_vars, VariablesOf(r))
          /\ node_results' = Update(node_results, BodyCur :> r)
          /\ loop' = <<[Frame EXCEPT
                          !.j = @ + 1,
                          !.last_http_result =
                              IF nodes[BodyCur].node_type \in {"http_request", "collection"}
                              THEN <<r>> ELSE @,
                          !.sub_events = Append(@, [type |-> "node_result",
                                                    node_id |-> BodyCur,
                                                    iteration |-> Frame.i,
                                                    result |-> r]),
                          !.body_skipped =
                              AfterBodyBranch(BodyCur, r, @,
                                              SeqToSet(Frame.loop_body_nodes))]>>
          /\ calls' = Append(calls, Call(BodyCur, Frame.node, Frame.i, out))
    /\ UNCHANGED <<flowVars, pc, execution_order, pos, skipped_nodes, exec_index, events>>

\* Lines 1099-1121: the end of one pass: the body nodes are marked handled and,
\* in mode "condition", the loop condition decides whether to break.
\* The break as it would be if it were taken when the condition holds.
LoopStopsInverted(config, fv, i, last_http_result) ==
    config.mode # "count" /\ LoopCondition(config, fv, i, last_http_result) = "true"

LoopStops(config, fv, i, last_http_result) ==
    config.mode # "count" /\ LoopCondition(config, fv, i, last_http_result) # "true"

LoopIterEnd ==
    /\ InLoop
    /\ Frame.phase = "body"
    /\ Frame.j > Len(Frame.body_order)
    /\ skipped_nodes' = skipped_nodes \cup SeqToSet(Frame.loop_body_nodes)
    /\ loop' = <<[Frame EXCEPT
                    !.phase = "next",
                    !.stopped = LoopStops(nodes[Frame.node].config, flow_vars,
                                          Frame.i, Frame.last_http_result)]>>
    /\ UNCHANGED <<flowVars, pc, execution_order, pos, flow_vars, node_results,
                   exec_index, events, calls>>

\* _exec_loop returns; the walk yields the sub-events, stores and yields the
\* loop node's result.
\* The result as it would be if it reported the passes planned instead of the
\* passes started.
LoopResultPlanned(frame) ==
    [status |-> "success", node_type |-> "loop",
     iterations_completed |->
        IF frame.loop_body_nodes # <<>> THEN frame.iterations ELSE 0]

LoopResult(frame) ==
    [status |-> "success", node_type |-> "loop",
     iterations_completed |->
        IF frame.loop_body_nodes # <<>> THEN frame.completed ELSE 0]

LoopReturn ==
    /\ InLoop
    /\ Frame.phase = "next"
    /\ Frame.stopped \/ Frame.i >= Frame.iterations
    /\ LET result == Stamped(LoopResult(Frame), Frame.node) IN
       /\ node_results' = Update(node_results, Frame.node :> result)
       /\ events' = events \o Frame.sub_events
                           \o <<NodeResultEvent(Frame.node, result)>>
    /\ loop' = <<>>
    /\ exec_index' = exec_index + 1
    /\ pos' = pos + 1
    /\ pc' = "walk"
    /\ UNCHANGED <<flowVars, execution_order, flow_vars, skipped_nodes, calls>>

\* ------------------------------------------------------- the flows run
HttpNode == [node_type |-> "http_request", config |-> EmptyDict]

GroupNode == [node_type |-> "group", config |-> EmptyDict]

ConditionNode(expression) ==
    [node_type |-> "condition", config |-> [expression |-> expression]]

AssertionNode(assertions) ==
    [node_type |-> "assertion", config |-> [assertions |-> assertions]]

StatusIs200 == [type |-> "status_code", operator |-> "eq", expected |-> "200"]

ScriptNode == [node_type |-> "script", config |-> [script |-> "x = 1"]]

StatusGte200 == [type |-> "status_code", operator |-> "gte", expected |-> "200"]

SetVariableNode ==
    [node_type |-> "set_variable",
     config |-> [assignments |-> <<[key |-> "k", value |-> [lit |-> "v"]]>>]]

LoopNode(mode, count, max_iterations, condition) ==
    [node_type |-> "loop",
     config |-> [mode |-> mode, count |-> count,
                 max_iterations |-> max_iterations, condition |-> condition]]

\* The handles the editor gives the outgoing edges of a node.
HandlesOf(node_type) ==
    CASE node_type \in {"condition", "assertion"} -> {"source-true", "source-false"}
      [] node_type = "loop" -> {"source-loop", "source-done"}
      [] OTHER -> {Null}

HandleRank(h) ==
    CASE h \in {"source-true", "source-loop", Null} -> 0
      [] OTHER -> 1

\* The edges a flow may have: any source -> target among `pairs`, with a handle
\* of the source's type.
Candidates(N, pairs) ==
    {c \in pairs \X {"source-true", "source-false", "source-loop", "source-done", Null} :
        c[2] \in HandlesOf(N[c[1][1]].node_type)}

AllPairs == Nodes \X Nodes

NoSelfLoops == {p \in AllPairs : p[1] # p[2]}

RECURSIVE SubsetsUpTo(_, _)
SubsetsUpTo(S, k) ==
    IF k = 0 THEN {{}}
    ELSE LET P == SubsetsUpTo(S, k - 1) IN P \cup {X \cup {e} : X \in P, e \in S}

EdgeKey(c) == (c[1][1] * (NumNodes + 2) + c[1][2]) * 2 + HandleRank(c[2])

RECURSIVE EdgeList(_, _)
EdgeList(S, i) ==
    IF S = {} THEN <<>>
    ELSE LET c == CHOOSE x \in S : \A y \in S : EdgeKey(x) <= EdgeKey(y)
         IN <<Edge(i, c[1][1], c[1][2], c[2])>> \o EdgeList(S \ {c}, i + 1)

\* The start of a run of a flow whose nodes are one of `typings`, whose edges
\* are at most MaxEdges of the candidates over `pairs` and whose initial
\* variables are one of `variables`.
InitFlowsWith(typings, pairs, variables) ==
    /\ nodes \in typings
    /\ \E S \in SubsetsUpTo(Candidates(nodes, pairs), MaxEdges) : edges = EdgeList(S, 1)
    /\ flow_variables \in variables
    /\ pc = "build"
    /\ execution_order = <<>>
    /\ pos = 1
    /\ flow_vars = EmptyDict
    /\ node_results = EmptyDict
    /\ skipped_nodes = {}
    /\ exec_index = 0
    /\ events = <<>>
    /\ loop = <<>>
    /\ calls = <<>>
    /\ previous = <<>>
    /\ other = <<>>

InitFlows(typings, pairs) == InitFlowsWith(typings, pairs, {EmptyDict})

\* Branching flows: conditions, assertions, a loop, groups.
GeneralKinds ==
    {HttpNode, GroupNode,
     ConditionNode(ExprTrue), ConditionNode(ExprFalse), ConditionNode(Null),
     AssertionNode(<<StatusIs200>>), AssertionNode(<<NotADict>>),
     LoopNode("count", 1, 1, ExprFalse)}

Init == InitFlows([Nodes -> GeneralKinds], NoSelfLoops)

Next ==
    \/ BuildOk
    \/ BuildCycle
    \/ WalkGroup
    \/ WalkSkip
    \/ WalkDispatch
    \/ WalkLoopEnter
    \/ LoopIterStart
    \/ LoopBodySkip
    \/ LoopBodyDispatch
    \/ LoopIterEnd
    \/ LoopReturn
    \/ Finish

Spec == Init /\ [][Next]_vars

\* Graph flows: every pair of nodes may be joined, self-loops included.
GraphKinds ==
    {HttpNode, GroupNode, ConditionNode(ExprTrue), LoopNode("count", 1, 1, ExprFalse)}

InitGraph == InitFlows([Nodes -> GraphKinds], AllPairs)

SpecGraph == InitGraph /\ [][Next]_vars

\* Loop flows: node 1 is a loop node of any configuration within the bounds,
\* the other nodes are what its body may hold.
LoopExprs == {ExprTrue, ExprFalse, ExprIter, ExprStatus, ExprVar, ExprUndef}

LoopKinds ==
    {LoopNode("count", c, m, ExprFalse) : c \in 0..MaxCount, m \in 0..MaxIter}
        \cup {LoopNode("condition", 1, m, e) : m \in 0..MaxIter, e \in LoopExprs}

BodyKinds == {HttpNode, SetVariableNode, ConditionNode(ExprIter), GroupNode}

InitLoop ==
    InitFlows({f \in [Nodes -> LoopKinds \cup BodyKinds] :
                  /\ f[1] \in LoopKinds
                  /\ \A n \in Nodes \ {1} : f[n] \in BodyKinds},
              NoSelfLoops)

SpecLoop == InitLoop /\ [][Next]_vars

\* Variable flows: set_variable nodes that write k and read it back, a condition
\* on k, a loop of two passes, and initial variables with or without k.
SetVar(key, value) ==
    [node_type |-> "set_variable",
     config |-> [assignments |-> <<[key |-> key, value |-> value]>>]]

VarKinds ==
    {SetVariableNode, SetVar("k", [lit |-> "w"]), SetVar("j", [ref |-> "k"]),
     ConditionNode(ExprVar), LoopNode("count", 2, 2, ExprFalse), GroupNode}

InitVars == InitFlowsWith([Nodes -> VarKinds], NoSelfLoops, {EmptyDict, "k" :> "v"})

SpecVars == InitVars /\ [][Next]_vars

\* Assertion flows: assertion nodes with no, one and two configured checks
\* behind http_request nodes, groups and a loop.
AssertKinds ==
    {HttpNode, GroupNode, LoopNode("count", 1, 1, ExprFalse),
     AssertionNode(<<>>), AssertionNode(<<StatusIs200>>),
     AssertionNode(<<StatusIs200, StatusGte200>>)}

InitAssert == InitFlows([Nodes -> AssertKinds], NoSelfLoops)

SpecAssert == InitAssert /\ [][Next]_vars

\* A second run of the same flow after the first has ended: the locals of
\* run_test_flow_stream start afresh, the flow is as the first run left it.
Rerun ==
    /\ pc = "done"
    /\ previous = <<>>
    /\ previous' = <<[calls |-> calls, events |-> events]>>
    /\ pc' = "build"
    /\ execution_order' = <<>>
    /\ pos' = 1
    /\ flow_vars' = EmptyDict
    /\ node_results' = EmptyDict
    /\ skipped_nodes' = {}
    /\ exec_index' = 0
    /\ events' = <<>>
    /\ loop' = <<>>
    /\ calls' = <<>>
    /\ UNCHANGED <<nodes, edges, flow_variables, other>>

NextRerun == Next \/ Rerun

\* Flows run twice: collaborator nodes, a node that reads a variable a script
\* may write, a condition, a loop, a group.
RerunKinds ==
    {HttpNode, ScriptNode, SetVar("j", [ref |-> "s"]), ConditionNode(ExprTrue),
     LoopNode("count", 1, 1, ExprFalse), GroupNode}

InitRerun == InitFlows([Nodes -> RerunKinds], NoSelfLoops)

SpecRerun == InitRerun /\ [][NextRerun]_vars

\* Flows of four nodes: an http_request or a loop, an assertion on the status
\* code, a set_variable node and a script, or http_request / group nodes in
\* their places.
FourNodes == 1..(NumNodes + 1)

FourKinds ==
    {f \in [FourNodes -> {HttpNode, LoopNode("count", 1, 1, ExprFalse),
                          AssertionNode(<<StatusIs200>>),
                          SetVar("id", [lit |-> "{{body.id}}"]), GroupNode,
                          ScriptNode}] :
        /\ f[1] \in {HttpNode, LoopNode("count", 1, 1, ExprFalse)}
        /\ f[2] \in {AssertionNode(<<StatusIs200>>), HttpNode}
        /\ f[3] \in {SetVar("id", [lit |-> "{{body.id}}"]), GroupNode}
        /\ f[4] \in {ScriptNode, HttpNode}}

InitFour ==
    InitFlows(FourKinds, {p \in FourNodes \X FourNodes : p[1] # p[2]})

SpecFour == InitFour /\ [][Next]_vars

\* Typed flows: a node of a type the switches do not know, next to a request, a
\* group, a condition of either outcome and a loop.
UnknownNode == [node_type |-> "mystery", config |-> EmptyDict]

TypeKinds ==
    {UnknownNode, HttpNode, GroupNode, ConditionNode(ExprTrue), ConditionNode(ExprFalse),
     LoopNode("count", 1, 1, ExprFalse)}

InitTypes == InitFlows([Nodes -> TypeKinds], NoSelfLoops)

SpecTypes == InitTypes /\ [][Next]_vars

\* Placeholder flows: a script that may produce s, a set_variable that writes
\* k, one whose value is the text a{{s}}{{k}}{{u}} (u is never written), one
\* with two assignments of which the second names the key of the first, a
\* loop of two passes, a group and a condition that is false.
SetVarText ==
    SetVar("t", [parts |-> <<[lit |-> "a"], [ref |-> "s"], [ref |-> "k"], [ref |-> "u"]>>])

SetVarTwo ==
    [node_type |-> "set_variable",
     config |-> [assignments |-> <<[key |-> "k", value |-> [lit |-> "x"]],
                                   [key |-> "j", value |-> [ref |-> "k"]]>>]]

PlaceholderKinds ==
    {ScriptNode, SetVar("k", [lit |-> "w"]), SetVarText, SetVarTwo,
     LoopNode("count", 2, 2, ExprFalse), GroupNode, ConditionNode(ExprFalse)}

InitPlaceholder ==
    InitFlowsWith([Nodes -> PlaceholderKinds], NoSelfLoops, {EmptyDict, "k" :> "v"})

SpecPlaceholder == InitPlaceholder /\ [][Next]_vars

\* Comparison flows: node 1 is a request (for a JSON document or not), node 2
\* an assertion node with one check of any operator and expected text on the
\* status code or on the field n of the body, node 3 a group or a loop.
JsonHttpNode == [node_type |-> "http_request", config |-> [request |-> "json"]]

Operators ==
    {"eq", "neq", "gt", "lt", "gte", "lte", "contains", "not_contains", "regex", "bogus"}

ExpectedTexts == {"", "200", "500", "200.0", "abc", "bc", "20", "("}

Checks ==
    {[type |-> t, operator |-> o, expected |-> e, field |-> "$.n"] :
         t \in {"status_code", "json_path"}, o \in Operators, e \in ExpectedTexts}

ComparePairs == {<<1, 2>>, <<2, 3>>, <<3, 2>>, <<2, 1>>}

InitCompare ==
    InitFlows({f \in [Nodes -> {HttpNode, JsonHttpNode, GroupNode,
                                LoopNode("count", 1, 1, ExprFalse)}
                               \cup {AssertionNode(<<c>>) : c \in Checks}] :
                  /\ f[1] \in {HttpNode, JsonHttpNode}
                  /\ f[2].node_type = "assertion"
                  /\ f[3].node_type \in {"group", "loop"}},
              ComparePairs)

SpecCompare == InitCompare /\ [][Next]_vars

\* Two runs. Every variable of run_test_flow_stream is a local of its
\* generator (lines 757-789), so a second run has locals of its own: `other`
\* holds them while that run is suspended at a yield or an await, and a
\* switch of the event loop suspends the run that was driven and resumes the
\* other one.
RunState ==
    [nodes |-> nodes, edges |-> edges, flow_variables |-> flow_variables, pc |-> pc,
     execution_order |-> execution_order, pos |-> pos, flow_vars |-> flow_vars,
     node_results |-> node_results, skipped_nodes |-> skipped_nodes,
     exec_index |-> exec_index, events |-> events, loop |-> loop, calls |-> calls]

\* The locals of a run of flow (N, E, V) that has not started.
FreshRun(N, E, V) ==
    [nodes |-> N, edges |-> E, flow_variables |-> V, pc |-> "build",
     execution_order |-> <<>>, pos |-> 1, flow_vars |-> EmptyDict,
     node_results |-> EmptyDict, skipped_nodes |-> {}, exec_index |-> 0,
     events |-> <<>>, loop |-> <<>>, calls |-> <<>>]

\* The switch as it would be if the Variable Store were one dict shared by
\* the runs (module state) instead of a local.
SwitchSharingStore ==
    /\ other # <<>>
    /\ other' = <<RunState>>
    /\ nodes' = other[1].nodes
    /\ edges' = other[1].edges
    /\ flow_variables' = other[1].flow_variables
    /\ pc' = other[1].pc
    /\ execution_order' = other[1].execution_order
    /\ pos' = other[1].pos
    /\ node_results' = other[1].node_results
    /\ skipped_nodes' = other[1].skipped_nodes
    /\ exec_index' = other[1].exec_index
    /\ events' = other[1].events
    /\ loop' = other[1].loop
    /\ calls' = other[1].calls
    /\ UNCHANGED <<flow_vars, previous>>

Switch ==
    /\ other # <<>>
    /\ other' = <<RunState>>
    /\ nodes' = other[1].nodes
    /\ edges' = other[1].edges
    /\ flow_variables' = other[1].flow_variables
    /\ pc' = other[1].pc
    /\ execution_order' = other[1].execution_order
    /\ pos' = other[1].pos
    /\ flow_vars' = other[1].flow_vars
    /\ node_results' = other[1].node_results
    /\ skipped_nodes' = other[1].skipped_nodes
    /\ exec_index' = other[1].exec_index
    /\ events' = other[1].events
    /\ loop' = other[1].loop
    /\ calls' = other[1].calls
    /\ UNCHANGED previous

NextTwo == Next \/ Switch

\* The flows of two runs: the first run is of a flow that writes and reads k
\* (or loops), the second of the same flow or of OtherFlow.
TwoPairs == {<<1, 2>>, <<2, 3>>, <<3, 2>>}

OtherNodes ==
    <<SetVar("k", [lit |-> "w"]), ConditionNode(ExprVar), SetVar("j", [ref |-> "k"])>>

OtherEdges == <<Edge(1, 1, 2, Null), Edge(2, 2, 3, "source-true")>>

InitTwo ==
    /\ nodes \in {f \in [Nodes -> {SetVar("k", [lit |-> "w"]),
                                  LoopNode("count", 1, 1, ExprFalse),
                                  ConditionNode(ExprVar), HttpNode, GroupNode,
                                  SetVar("j", [ref |-> "k"])}] :
                     /\ f[1] \in {SetVar("k", [lit |-> "w"]),
                                  LoopNode("count", 1, 1, ExprFalse)}
                     /\ f[2] \in {ConditionNode(ExprVar), HttpNode}
                     /\ f[3] \in {GroupNode, SetVar("j", [ref |-> "k"])}}
    /\ \E S \in SubsetsUpTo(Candidates(nodes, TwoPairs), MaxEdges) : edges = EdgeList(S, 1)
    /\ flow_variables \in {EmptyDict, "k" :> "v"}
    /\ pc = "build"
    /\ execution_order = <<>>
    /\ pos = 1
    /\ flow_vars = EmptyDict
    /\ node_results = EmptyDict
    /\ skipped_nodes = {}
    /\ exec_index = 0
    /\ events = <<>>
    /\ loop = <<>>
    /\ calls = <<>>
    /\ previous = <<>>
    /\ other \in {<<FreshRun(nodes, edges, flow_variables)>>,
                  <<FreshRun(OtherNodes, OtherEdges, "k" :> "v")>>}

SpecTwo == InitTwo /\ [][NextTwo]_vars

\* Terminating flows: a request, a group, a condition, a condition loop whose
\* condition always holds and a count loop whose count exceeds max_iterations.
\* The run starts before run_test_flow_stream has read the flow (lines
\* 757-758), and the generator is driven to its end: every step that can be
\* taken is taken.
LiveKinds ==
    {HttpNode, GroupNode, ConditionNode(ExprTrue),
     LoopNode("condition", 1, MaxIter, ExprTrue), LoopNode("count", MaxCount, 1, ExprFalse)}

InitLive ==
    /\ nodes = <<>>
    /\ edges = <<>>
    /\ flow_variables = EmptyDict
    /\ pc = "load"
    /\ execution_order = <<>>
    /\ pos = 1
    /\ flow_vars = EmptyDict
    /\ node_results = EmptyDict
    /\ skipped_nodes = {}
    /\ exec_index = 0
    /\ events = <<>>
    /\ loop = <<>>
    /\ calls = <<>>
    /\ previous = <<>>
    /\ other = <<>>

\* nodes = {n.id: n for n in flow.nodes}; edges = list(flow.edges).
Load ==
    /\ pc = "load"
    /\ nodes' \in {f \in [Nodes -> LiveKinds] :
                      /\ f[1].node_type = "loop"
                      /\ f[2] \in {HttpNode, ConditionNode(ExprTrue)}
                      /\ f[3].node_type # "loop"}
    /\ \E S \in SubsetsUpTo(Candidates(nodes', NoSelfLoops), MaxEdges) :
          edges' = EdgeList(S, 1)
    /\ pc' = "build"
    /\ UNCHANGED <<flow_variables, previous, other, execution_order, pos, flow_vars,
                   node_results, skipped_nodes, exec_index, events, loop, calls>>

NextLive == Load \/ Next

SpecLive == InitLive /\ [][NextLive]_vars /\ WF_vars(NextLive)

\* ------------------------------------------------- graph notions for claims
\* The edge relation as a set of pairs, and its transitive closure.
EdgePairs(E) == {<<E[i].source_node_id, E[i].target_node_id>> : i \in 1..Len(E)}

RECURSIVE Closure(_, _)
Closure(R, k) ==
    IF k = 0 THEN R
    ELSE LET C == Closure(R, k - 1)
         IN C \cup {<<pq[1][1], pq[2][2]>> :
                        pq \in {x \in C \X R : x[1][2] = x[2][1]}}

PathPairs(R) == Closure(R, NumNodes)

\* Every edge joins two non-group nodes, and no node reaches itself.
EdgesAmongNonGroup ==
    \A p \in EdgePairs(edges) : p[1] \in NonGroup(nodes) /\ p[2] \in NonGroup(nodes)

NonGroupPairs ==
    {p \in EdgePairs(edges) : p[1] \in NonGroup(nodes) /\ p[2] \in NonGroup(nodes)}

CycleAmongNonGroup == \E n \in Nodes : <<n, n>> \in PathPairs(NonGroupPairs)

Started == Len(events) >= 1 /\ events[1].type = "start"

\* C1: for a flow whose edges join non-group nodes and form a DAG,
\* _topological_sort returns (it does not raise) a list that holds every
\* non-group node exactly once and no other, with the source of every edge
\* before its target.
C1_TopologicalOrder ==
    (pc # "build" /\ EdgesAmongNonGroup /\ ~CycleAmongNonGroup) =>
        /\ Started
        /\ Len(execution_order) = Cardinality(NonGroup(nodes))
        /\ SeqToSet(execution_order) = NonGroup(nodes)
        /\ \A p \in EdgePairs(edges) :
              IndexOf(p[1], execution_order) < IndexOf(p[2], execution_order)

\* A DAG over non-group nodes, with a group node aside, whose order is not the
\* order of the node list.
C1_Witness ==
    /\ pc # "build" /\ EdgesAmongNonGroup /\ ~CycleAmongNonGroup
    /\ Len(edges) >= 2
    /\ NonGroup(nodes) # Nodes
    /\ \E i \in 1..Len(execution_order) : \E j \in 1..Len(execution_order) :
          i < j /\ execution_order[i] > execution_order[j]

\* C2: a flow with a cycle among non-group nodes (a self-loop included) yields
\* exactly the events error, done (all-zero summary, no final variables); no
\* start / node event is emitted and no executor is invoked.
C2_CycleAborts ==
    (pc # "build" /\ CycleAmongNonGroup) =>
        /\ pc = "done"
        /\ Len(events) = 2
        /\ events[1].type = "error"
        /\ events[2] = [type |-> "done", summary |-> ZeroSummary,
                        final_variables |-> EmptyDict]
        /\ calls = <<>>
        /\ node_results = EmptyDict

\* A self-loop on one node, and another non-group node that is neither on nor
\* downstream of the cycle.
C2_Witness ==
    /\ pc = "done"
    /\ \E n \in NonGroup(nodes) :
          /\ <<n, n>> \in EdgePairs(edges)
          /\ \E m \in NonGroup(nodes) \ {n} :
                \A p \in PathPairs(EdgePairs(edges)) : p[2] # m
    /\ Len(events) = 2

\* ------------------------------------------- the run as the claims see it
\* The result the main walk yielded for node n (<<>> when it has yielded none):
\* its node_result event, which carries no iteration.
MainResultOf(n) ==
    LET I == {i \in 1..Len(events) :
                 /\ events[i].type = "node_result"
                 /\ ~Has(events[i], "iteration")
                 /\ events[i].node_id = n}
    IN IF I = {} THEN <<>> ELSE <<events[CHOOSE i \in I : TRUE].result>>

\* The condition / assertion nodes the main walk dispatched, with the branch
\* their result carries.
MainBranches ==
    {cb \in Nodes \X {"true", "false"} :
        /\ nodes[cb[1]].node_type \in {"condition", "assertion"}
        /\ MainResultOf(cb[1]) # <<>>
        /\ BranchOf(MainResultOf(cb[1])[1]) = cb[2]}

Dispatched(n) == \E k \in 1..Len(calls) : calls[k].node_id = n

MainCallIndex(n) == CHOOSE k \in 1..Len(calls) : calls[k].node_id = n /\ calls[k].by = 0

DispatchedAfter(n, k) == \E m \in (k + 1)..Len(calls) : calls[m].node_id = n

\* The targets of C's outgoing edges with / without the handle h.
HandleTargets(c, h) ==
    {edges[i].target_node_id : i \in {j \in 1..Len(edges) :
        edges[j].source_node_id = c /\ edges[j].source_handle = h}}

OtherTargets(c, h) ==
    {edges[i].target_node_id : i \in {j \in 1..Len(edges) :
        edges[j].source_node_id = c /\ edges[j].source_handle # h}}

\* The nodes reachable from a set of nodes (those nodes included) over R.
ReachSet(S, R) == S \cup {p[2] : p \in {q \in PathPairs(R) : q[1] \in S}}

Untaken(b) == IF b = "true" THEN "source-false" ELSE "source-true"

\* Reachable from C's untaken-handle edges but not from its other edges.
OnlyUntaken(c, b) ==
    ReachSet(HandleTargets(c, Untaken(b)), EdgePairs(edges))
        \ ReachSet(OtherTargets(c, Untaken(b)), EdgePairs(edges))

\* D lies on a source-true path and on a source-false path of C.
Diamond(c, d) ==
    /\ d \in ReachSet(HandleTargets(c, "source-true"), EdgePairs(edges))
    /\ d \in ReachSet(HandleTargets(c, "source-false"), EdgePairs(edges))

\* C3: when the paths of a condition / assertion node C rejoin at D, then once C
\* has yielded its branch every node reachable only from C's untaken edges is
\* in skipped_nodes and is not dispatched afterwards, and D is dispatched.
C3_DiamondProperty ==
    pc = "done" =>
        \A cb \in MainBranches :
            LET c == cb[1] IN
            (\E d \in NonGroup(nodes) : Diamond(c, d)) =>
                /\ \A x \in OnlyUntaken(c, cb[2]) :
                      /\ x \in skipped_nodes
                      /\ ~DispatchedAfter(x, MainCallIndex(c))
                /\ \A d \in NonGroup(nodes) : Diamond(c, d) => Dispatched(d)

\* The edges that leave C by its untaken handle.
UntakenEdges(c, b) ==
    {<<c, t>> : t \in HandleTargets(c, Untaken(b))}
        \ {<<c, t>> : t \in OtherTargets(c, Untaken(b))}

\* C4: a node with an incoming path from a dispatched node that avoids the
\* untaken-handle edges of the deciding node C is not marked skipped by C and
\* is dispatched.
C4_SkippedOnlyIfUntakenOnly ==
    \A cb \in MainBranches : \A x \in NonGroup(nodes) :
        (\E r \in Nodes \ {x} :
            /\ Dispatched(r)
            /\ <<r, x>> \in PathPairs(EdgePairs(edges) \ UntakenEdges(cb[1], cb[2])))
        => /\ x \notin OnlyUntaken(cb[1], cb[2])
           /\ pc = "done" => Dispatched(x)

\* The nodes the Branch Resolver has added to skipped_nodes so far.
BranchSkipped == UNION {OnlyUntaken(cb[1], cb[2]) : cb \in MainBranches}

\* C5: once the Branch Resolver has added a node to skipped_nodes, no executor
\* is invoked for it, by the main walk or by the Loop Executor.
C5_SkippedNeverDispatched ==
    [][\A x \in BranchSkipped :
          Len(calls') > Len(calls) => calls'[Len(calls')].node_id # x]_vars

\* The main walk has handled node n: it yielded node_skipped or node_result.
MainSkippedEvent(n) ==
    \E i \in 1..Len(events) :
        /\ events[i].type = "node_skipped"
        /\ ~Has(events[i], "iteration")
        /\ events[i].node_id = n

\* C9: when the executor of a node of the main walk raises or returns status
\* error, the node's result has status error and its node_result event is
\* emitted; the walk is never stuck, and at the end every non-group node of the
\* order was handled and `done` is the last event.
C9_NodeFailureContinues ==
    /\ \A k \in 1..Len(calls) :
          (calls[k].by = 0 /\ calls[k].outcome \in {"raise", "error"}) =>
              /\ MainResultOf(calls[k].node_id) # <<>>
              /\ MainResultOf(calls[k].node_id)[1].status = "error"
    /\ AtNode => ENABLED (WalkGroup \/ WalkSkip \/ WalkDispatch \/ WalkLoopEnter)
    /\ (pc = "done" /\ Started) =>
          /\ events[Len(events)].type = "done"
          /\ \A i \in 1..Len(execution_order) :
                LET n == execution_order[i] IN
                nodes[n].node_type # "group" =>
                    MainSkippedEvent(n) \/ MainResultOf(n) # <<>>

\* A run that ended after an executor raised, another returned an error, and a
\* node was dispatched after a failure.
C9_Witness ==
    /\ pc = "done"
    /\ \E k \in 1..Len(calls) : calls[k].by = 0 /\ calls[k].outcome = "raise"
    /\ \E k \in 1..Len(calls) : calls[k].by = 0 /\ calls[k].outcome = "error"
    /\ \E k \in 1..Len(calls) : \E m \in 1..Len(calls) :
          k < m /\ calls[k].outcome \in {"raise", "error"} /\ calls[m].by = 0

\* C10: a condition / assertion result of status error carries
\* branch_taken = "false", and after such a result of the main walk the nodes
\* reachable only via the node's source-true edges are in skipped_nodes.
C10_ErrorTakesFalseBranch ==
    /\ \A n \in DOMAIN node_results :
          (nodes[n].node_type \in {"condition", "assertion"}
              /\ node_results[n].status = "error")
          => BranchOf(node_results[n]) = "false"
    /\ \A n \in Nodes :
          (/\ nodes[n].node_type \in {"condition", "assertion"}
           /\ MainResultOf(n) # <<>>
           /\ MainResultOf(n)[1].status = "error")
          => OnlyUntaken(n, "false") \subseteq skipped_nodes

\* ------------------------------------------------- the loop executor
LoopNodes == {n \in Nodes : nodes[n].node_type = "loop"}

\* The loop nodes whose _exec_loop has returned.
ReturnedLoops == {l \in LoopNodes : MainResultOf(l) # <<>>}

IterationEvents(l) ==
    SelectSeq(events, LAMBDA ev : ev.type = "loop_iteration" /\ ev.node_id = l)

LoopCalls(l, x, i) ==
    {k \in 1..Len(calls) :
        calls[k].node_id = x /\ calls[k].by = l /\ calls[k].iteration = i}

BodySkippedEvent(x, i) ==
    \E k \in 1..Len(events) :
        /\ events[k].type = "node_skipped"
        /\ Has(events[k], "iteration")
        /\ events[k].node_id = x
        /\ events[k].iteration = i

\* C6: a loop in mode "count" runs exactly min(count, max_iterations) passes
\* over its body and emits that many loop_iteration events, numbered 1..n.
C6_CountLoopPasses ==
    \A l \in ReturnedLoops :
        LET cfg == nodes[l].config
            n == IF cfg.count <= cfg.max_iterations THEN cfg.count
                 ELSE cfg.max_iterations
            its == IterationEvents(l)
        IN cfg.mode = "count" =>
            /\ Len(its) = n
            /\ \A k \in 1..Len(its) : its[k].iteration = k
            /\ \A k \in 1..Len(calls) : calls[k].by = l => calls[k].iteration \in 1..n
            /\ \A i \in 1..n :
                  \A x \in SeqToSet(BodyOrder(LoopBodyNodes(l, nodes, edges), edges)) :
                      /\ Cardinality(LoopCalls(l, x, i)) <= 1
                      /\ LoopCalls(l, x, i) # {} \/ BodySkippedEvent(x, i)

\* A count loop with count above max_iterations >= 1 and a body has returned.
C6_Witness ==
    \E l \in ReturnedLoops :
        /\ nodes[l].config.mode = "count"
        /\ nodes[l].config.count > nodes[l].config.max_iterations
        /\ nodes[l].config.max_iterations >= 1
        /\ \E k \in 1..Len(calls) : calls[k].by = l

\* C7: after a loop node was dispatched every node of its body is in
\* skipped_nodes, also when the loop ran zero iterations; the main walk never
\* dispatches a body node and the Loop Executor at most once per iteration.
C7_BodyHandledByLoop ==
    \A l \in ReturnedLoops : \A x \in SeqToSet(LoopBodyNodes(l, nodes, edges)) :
        /\ x \in skipped_nodes
        /\ \A k \in 1..Len(calls) : calls[k].node_id = x => calls[k].by # 0
        /\ \A i \in 1..MaxIter : Cardinality(LoopCalls(l, x, i)) <= 1

\* The last http_request / collection result of the pass the frame is in.
LastHttpOfPass(frame) ==
    LET I == {k \in 1..Len(frame.sub_events) :
                 /\ frame.sub_events[k].type = "node_result"
                 /\ frame.sub_events[k].iteration = frame.i
                 /\ nodes[frame.sub_events[k].node_id].node_type
                        \in {"http_request", "collection"}}
    IN IF I = {} THEN <<>>
       ELSE <<frame.sub_events[CHOOSE k \in I : \A m \in I : m <= k].result>>

\* The loop condition over the current variables, the pass number and the last
\* HTTP result of the pass.
ConditionAfterPass(frame) ==
    LET last == LastHttpOfPass(frame) IN
    EvalExpr(nodes[frame.node].config.condition,
             [vars |-> flow_vars,
              names |-> IF last = <<>> THEN {"vars", "iteration"}
                        ELSE {"vars", "iteration", "status_code", "response_body",
                              "response_headers", "elapsed_ms"},
              status_code |-> IF last = <<>> THEN <<>> ELSE StatusCodeOf(last[1]),
              iteration |-> frame.i])

ConditionLoop(frame) ==
    /\ nodes[frame.node].config.mode = "condition"
    /\ nodes[frame.node].config.max_iterations >= 1

\* C8: a loop in mode "condition" with max_iterations = M >= 1 runs between 1 and
\* M passes; the end of pass i breaks the loop exactly when the condition after
\* pass i is false or raises; a pass starts only when no break was taken and
\* fewer than M passes ran; the loop returns before pass M only after a break.
C8_ConditionLoop ==
    [][(InLoop /\ ConditionLoop(Frame)) =>
          /\ (loop' # <<>> /\ Frame.phase = "body" /\ loop'[1].phase = "next") =>
                loop'[1].stopped = (ConditionAfterPass(Frame) # "true")
          /\ (loop' # <<>> /\ Frame.phase = "next" /\ loop'[1].phase = "body") =>
                /\ ~Frame.stopped
                /\ Frame.i < nodes[Frame.node].config.max_iterations
                /\ loop'[1].i = Frame.i + 1
          /\ loop' = <<>> =>
                /\ Frame.completed >= 1
                /\ Frame.completed <= nodes[Frame.node].config.max_iterations
                /\ Frame.completed = Frame.i
                /\ Frame.completed < nodes[Frame.node].config.max_iterations
                      => Frame.stopped
                /\ Len(SelectSeq(Frame.sub_events,
                                 LAMBDA ev : ev.type = "loop_iteration"))
                      = Frame.completed
      ]_vars

\* A condition loop on status_code with M = 2 that stopped after its first pass,
\* in which an http_request node of the body returned a response.
C8_Witness ==
    \E l \in ReturnedLoops :
        /\ nodes[l].config.mode = "condition"
        /\ nodes[l].config.max_iterations = 2
        /\ nodes[l].config.condition = ExprStatus
        /\ MainResultOf(l)[1].iterations_completed = 1
        /\ \E k \in 1..Len(calls) :
              /\ calls[k].by = l
              /\ calls[k].outcome = "success"
              /\ nodes[calls[k].node_id].node_type = "http_request"

\* ------------------------------------------------- the Variable Store
\* Every event yielded or appended so far, in the order it was produced.
Produced == events \o (IF InLoop THEN Frame.sub_events ELSE <<>>)

ResultEvents == SelectSeq(Produced, LAMBDA ev : ev.type = "node_result")

Overlay(a, b) ==
    [x \in DOMAIN a \cup DOMAIN b |-> IF x \in DOMAIN b THEN b[x] ELSE a[x]]

\* The initial variables overlaid with the variables of the first k results.
RECURSIVE StoreAfter(_, _)
StoreAfter(rs, k) ==
    IF k = 0 THEN flow_variables
    ELSE Overlay(StoreAfter(rs, k - 1),
                 IF "variables" \in DOMAIN rs[k].result THEN rs[k].result.variables
                 ELSE [x \in {} |-> Null])

\* C11: the Variable Store is the initial variables overlaid, in dispatch order
\* and last write wins, with the variables of every result so far; what a
\* set_variable or condition node yields is what its executor yields on the
\* store as of its dispatch; final_variables of `done` is the store at the end.
C11_VariableStore ==
    LET rs == ResultEvents IN
    Started =>
        /\ flow_vars = StoreAfter(rs, Len(rs))
        /\ \A k \in 1..Len(rs) :
              LET r == rs[k].result
                  node == nodes[rs[k].node_id]
                  seen == StoreAfter(rs, k - 1)
              IN /\ (node.node_type = "set_variable" /\ r.status = "success") =>
                        r.variables = Assign(node.config.assignments, seen, EmptyDict)
                 /\ (node.node_type = "condition" /\ r.status = "success") =>
                        r.branch_taken =
                            (IF "k" \in DOMAIN seen /\ seen["k"] = "v"
                             THEN "true" ELSE "false")
        /\ pc = "done" =>
              /\ events[Len(events)].type = "done"
              /\ events[Len(events)].final_variables = StoreAfter(rs, Len(rs))

\* A finished run in which k was written twice with different values and then
\* read by a later set_variable node.
C11_Witness ==
    /\ pc = "done"
    /\ Started
    /\ \E a, b, c \in 1..Len(ResultEvents) :
          /\ a < b /\ b < c
          /\ "variables" \in DOMAIN ResultEvents[a].result
          /\ "variables" \in DOMAIN ResultEvents[b].result
          /\ "variables" \in DOMAIN ResultEvents[c].result
          /\ "k" \in DOMAIN ResultEvents[a].result.variables
          /\ "k" \in DOMAIN ResultEvents[b].result.variables
          /\ ResultEvents[a].result.variables["k"] # ResultEvents[b].result.variables["k"]
          /\ "j" \in DOMAIN ResultEvents[c].result.variables
          /\ ResultEvents[c].result.variables["j"] = ResultEvents[b].result.variables["k"]

\* ------------------------------------------------------- the Emitter
Emitted(type, node_id, iteration) ==
    \E k \in 1..Len(events) :
        /\ events[k].type = type
        /\ events[k].node_id = node_id
        /\ "iteration" \in DOMAIN events[k]
        /\ events[k].iteration = iteration

\* C12: no event is held back: once an executor of a loop body node has been
\* invoked, the loop_iteration event of its pass and the node_result events of
\* the body nodes invoked before it are on the output stream.
C12_NoBuffering ==
    \A m \in 1..Len(calls) :
        calls[m].by # 0 =>
            /\ Emitted("loop_iteration", calls[m].by, calls[m].iteration)
            /\ \A k \in 1..(m - 1) :
                  calls[k].by = calls[m].by =>
                      Emitted("node_result", calls[k].node_id, calls[k].iteration)

\* ------------------------------------------------- the order of events
IsNodeEvent(ev) == ev.type \in {"node_start", "node_result"}

InOrder(x, y) ==
    (InSeq(x, execution_order) /\ InSeq(y, execution_order)) =>
        IndexOf(x, execution_order) <= IndexOf(y, execution_order)

\* Two events of the same pass of the same loop: both carry the same iteration
\* and no event of the main walk lies between them.
SamePass(a, b) ==
    /\ "iteration" \in DOMAIN events[a]
    /\ "iteration" \in DOMAIN events[b]
    /\ events[a].iteration = events[b].iteration
    /\ \A k \in a..b : "iteration" \in DOMAIN events[k]

\* C13: in the main walk, and within one pass of a loop, the node_start and
\* node_result events appear in the relative order of their nodes in the
\* execution order computed at the start of the run.
C13_EventsInTopologicalOrder ==
    \A a \in 1..Len(events) : \A b \in a..Len(events) :
        (IsNodeEvent(events[a]) /\ IsNodeEvent(events[b])) =>
            /\ ("iteration" \notin DOMAIN events[a] /\ "iteration" \notin DOMAIN events[b])
                  => InOrder(events[a].node_id, events[b].node_id)
            /\ SamePass(a, b) => InOrder(events[a].node_id, events[b].node_id)

\* ------------------------------------------------------- predecessors
\* The executable nodes with an edge into x (a group has no executor and is
\* never reported).
Predecessors(x) ==
    {edges[i].source_node_id : i \in {j \in 1..Len(edges) :
        /\ edges[j].target_node_id = x
        /\ nodes[edges[j].source_node_id].node_type # "group"}}

ReportedSkipped(n) ==
    \E k \in 1..Len(Produced) :
        Produced[k].type = "node_skipped" /\ Produced[k].node_id = n

\* C14: when an executor is invoked for a node, by the main walk or by the Loop
\* Executor, every predecessor of the node has been dispatched before it or has
\* been reported skipped.
C14_PredecessorsFirst ==
    \A m \in 1..Len(calls) : \A q \in Predecessors(calls[m].node_id) :
        \/ \E k \in 1..(m - 1) : calls[k].node_id = q
        \/ ReportedSkipped(q)

\* ------------------------------------------------------- the summary
DoneEvent == events[Len(events)]

WithStatus(st) == {n \in DOMAIN node_results : node_results[n].status = st}

\* Every entry of every assertion_results list of node_results.
AssertionEntries ==
    UNION {{<<n, i>> : i \in 1..Len(node_results[n].assertion_results)} :
              n \in {m \in DOMAIN node_results :
                        "assertion_results" \in DOMAIN node_results[m]}}

\* C15: the summary of `done` counts the final node_results by status, its
\* total is the sum of the three counts, and its assertion counters count the
\* assertion_results entries, the passed ones being those with passed = true.
C15_SummaryCounts ==
    (pc = "done" /\ Started) =>
        LET s == DoneEvent.summary IN
        /\ DoneEvent.type = "done"
        /\ s.skipped_count = Cardinality(WithStatus("skipped"))
        /\ s.passed_count = Cardinality(WithStatus("success"))
        /\ s.failed_count = Cardinality(WithStatus("error"))
        /\ s.total_nodes = s.passed_count + s.failed_count + s.skipped_count
        /\ s.total_assertions = Cardinality(AssertionEntries)
        /\ s.total_assertions = s.passed_assertions + s.failed_assertions
        /\ s.passed_assertions =
              Cardinality({e \in AssertionEntries :
                  node_results[e[1]].assertion_results[e[2]].passed = TRUE})

\* A finished run with a skipped node, a failed node, and an assertion node
\* with one passed and one failed check.
C15_Witness ==
    /\ pc = "done"
    /\ Started
    /\ WithStatus("skipped") # {}
    /\ DoneEvent.summary.passed_assertions >= 1
    /\ DoneEvent.summary.failed_assertions >= 1
    /\ DoneEvent.summary.passed_count >= 1

\* ------------------------------------------------ the end-to-end scenario
\* A:http_request -> B:assertion{status_code eq 200}, B -(source-true)->
\* C:set_variable, B -(source-false)-> D:script, with A = 1, B = 2, C = 3, D = 4.
Scenario ==
    /\ nodes = <<HttpNode, AssertionNode(<<StatusIs200>>),
                 SetVar("id", [lit |-> "{{body.id}}"]), ScriptNode>>
    /\ {<<edges[i].source_node_id, edges[i].target_node_id, edges[i].source_handle>> :
            i \in 1..Len(edges)}
         = {<<1, 2, Null>>, <<2, 3, "source-true">>, <<2, 4, "source-false">>}
    /\ Len(edges) = 3

ScenarioDoneWith200 ==
    /\ Scenario
    /\ pc = "done"
    /\ node_results[1].status = "success"
    /\ node_results[1].status_code = 200

ScenarioBranches ==
    /\ \E k \in 1..Len(calls) : calls[k].node_id = 3
    /\ \A k \in 1..Len(calls) : calls[k].node_id # 4
    /\ node_results[4].status = "skipped"
    /\ DoneEvent.summary.total_assertions = 1
    /\ DoneEvent.summary.passed_assertions = 1

\* C16 as stated: in the scenario with A returning 200 the summary has
\* passed_count = 2, C executes, D is skipped, and one assertion of one passed.
C16_ScenarioAsStated ==
    ScenarioDoneWith200 => (DoneEvent.summary.passed_count = 2 /\ ScenarioBranches)

\* C16 amended: in the scenario with A returning 200 the summary has
\* passed_count = 3 (A, B and C), C executes, D is skipped, and one assertion
\* of one passed.
C16_Scenario ==
    ScenarioDoneWith200 => (DoneEvent.summary.passed_count = 3 /\ ScenarioBranches)

C16_Witness == ScenarioDoneWith200 /\ DoneEvent.summary.skipped_count = 1

\* ------------------------------------------------------- determinism
\* What a run shows: the nodes in the order they were dispatched, the nodes
\* reported skipped in the order of the reports, and the last event.
DispatchedSeq(cs) ==
    [k \in 1..Len(cs) |-> <<cs[k].node_id, cs[k].by, cs[k].iteration>>]

SkippedSeq(evs) ==
    LET sk == SelectSeq(evs, LAMBDA ev : ev.type = "node_skipped")
    IN [k \in 1..Len(sk) |-> sk[k].node_id]

\* C17: no step of a run changes the flow's initial variables, and a second
\* run of the flow, whose collaborators answer as in the first, ends with the
\* same sequence of dispatched nodes, the same sequence of skipped nodes, and
\* the same final_variables and summary in `done`.
C17_Deterministic ==
    [][/\ flow_variables' = flow_variables
       /\ (pc' = "done" /\ previous' # <<>>) =>
             /\ DispatchedSeq(calls') = DispatchedSeq(previous'[1].calls)
             /\ SkippedSeq(events') = SkippedSeq(previous'[1].events)
             /\ events'[Len(events')] = previous'[1].events[Len(previous'[1].events)]
      ]_vars

\* A second run has ended whose first run called a script that returned a
\* variable, an http_request node, and skipped a node.
C17_Witness ==
    /\ pc = "done"
    /\ previous # <<>>
    /\ \E k \in 1..Len(previous[1].calls) :
          /\ nodes[previous[1].calls[k].node_id].node_type = "script"
          /\ ~previous[1].calls[k].response.raised
          /\ previous[1].calls[k].response.result.variables # EmptyDict
    /\ \E k \in 1..Len(calls) : nodes[calls[k].node_id].node_type = "http_request"
    /\ SkippedSeq(events) # <<>>

\* ------------------------------------------------------ assertion nodes
\* The step invokes the executor of an assertion node; LastCall is that node.
AssertionDispatched ==
    /\ Len(calls') = Len(calls) + 1
    /\ nodes[calls'[Len(calls')].node_id].node_type = "assertion"

LastCall == calls'[Len(calls')].node_id

\* The upstream result the assertion node of the step is evaluated against.
UpstreamAtDispatch == FindUpstreamHttpResult(LastCall, edges, nodes, node_results)

\* C18: an assertion node with n >= 1 configured assertions that is dispatched
\* with no upstream result, or with an upstream result of status error, gets
\* status error, branch_taken false, and n assertion_results, each failed and
\* with an error.
C18_AssertionWithoutUpstream ==
    [][(/\ AssertionDispatched
        /\ Len(nodes[LastCall].config.assertions) >= 1
        /\ (UpstreamAtDispatch = <<>> \/ UpstreamAtDispatch[1].status = "error"))
       => LET r == node_results'[LastCall] IN
          /\ r.status = "error"
          /\ "branch_taken" \in DOMAIN r /\ r.branch_taken = "false"
          /\ "assertion_results" \in DOMAIN r
          /\ Len(r.assertion_results) = Len(nodes[LastCall].config.assertions)
          /\ \A i \in 1..Len(r.assertion_results) :
                /\ r.assertion_results[i].passed = FALSE
                /\ r.assertion_results[i].error # Null
      ]_vars

\* C19: an assertion node dispatched with an upstream result that has not
\* failed gets branch_taken true when every configured assertion passes (also
\* when none is configured) and false otherwise; its status is success exactly
\* when branch_taken is true and error exactly when some check fails.
C19_AssertionBranch ==
    [][(/\ AssertionDispatched
        /\ UpstreamAtDispatch # <<>>
        /\ UpstreamAtDispatch[1].status # "error")
       => LET r == node_results'[LastCall]
              checks == nodes[LastCall].config.assertions
              all_pass == \A i \in 1..Len(checks) :
                              AssertionPassed(checks[i], UpstreamAtDispatch[1])
          IN /\ "branch_taken" \in DOMAIN r
             /\ r.branch_taken = (IF all_pass THEN "true" ELSE "false")
             /\ (r.status = "success") = (r.branch_taken = "true")
             /\ (r.status = "error") = ~all_pass
      ]_vars

\* ------------------------------------------- branching in a loop body
\* C20: while a loop runs, branch resolution in its body puts only body nodes
\* into the per-iteration skip set, and only body nodes are added to the
\* outer skipped_nodes.
C20_BodyBranchScoped ==
    [][InLoop =>
          /\ (skipped_nodes' \ skipped_nodes) \subseteq SeqToSet(Frame.loop_body_nodes)
          /\ loop' # <<>> =>
                loop'[1].body_skipped \subseteq SeqToSet(Frame.loop_body_nodes)
      ]_vars

\* A finished run in which a condition / assertion node of a loop body yielded
\* a branch whose untaken handle has an edge to a node outside the body, and
\* the main walk dispatched that node afterwards.
C20_Witness ==
    /\ pc = "done"
    /\ \E i \in 1..Len(edges) : \E l \in DOMAIN nodes :
          LET c == edges[i].source_node_id
              x == edges[i].target_node_id
              body == SeqToSet(LoopBodyNodes(l, nodes, edges))
          IN /\ nodes[l].node_type = "loop"
             /\ c \in body
             /\ x \notin body
             /\ \E k \in 1..Len(calls) : \E m \in 1..Len(calls) :
                   /\ k < m
                   /\ calls[k].node_id = c /\ calls[k].by = l
                   /\ ~calls[k].response.raised
                   /\ "branch_taken" \in DOMAIN calls[k].response.result
                   /\ edges[i].source_handle =
                         (IF calls[k].response.result.branch_taken = "true"
                          THEN "source-false" ELSE "source-true")
                   /\ calls[m].node_id = x /\ calls[m].by = 0

\* ------------------------------------- variables written in a loop body
\* The variables a dispatch returned (none for an exception or an error).
Written(c) ==
    IF ~c.response.raised /\ "variables" \in DOMAIN c.response.result
    THEN c.response.result.variables ELSE EmptyDict

\* Call a wrote key x and no call strictly between a and b wrote x again.
LastWriteBefore(a, b, x) ==
    /\ a < b
    /\ x \in DOMAIN Written(calls[a])
    /\ \A m \in (a + 1)..(b - 1) : x \notin DOMAIN Written(calls[m])

\* C21: a variable written by a loop-body node is what every later dispatch
\* reads (later in the pass, in later passes, after the loop) until a later
\* node writes the key again, and it is in final_variables of `done` unless
\* overwritten.
C21_LoopVariablesCarry ==
    \A a \in 1..Len(calls) :
        (calls[a].by # 0) =>
            \A x \in DOMAIN Written(calls[a]) :
                /\ \A b \in 1..Len(calls) :
                      LastWriteBefore(a, b, x) =>
                          LET node == nodes[calls[b].node_id]
                              r == calls[b].response.result
                          IN /\ (node = SetVar("j", [ref |-> x])) =>
                                    r.variables["j"] = Written(calls[a])[x]
                             /\ (node = ConditionNode(ExprVar) /\ x = "k") =>
                                    r.branch_taken =
                                        (IF Written(calls[a])[x] = "v"
                                         THEN "true" ELSE "false")
                /\ LastWriteBefore(a, Len(calls) + 1, x) =>
                      /\ x \in DOMAIN flow_vars
                      /\ flow_vars[x] = Written(calls[a])[x]
                      /\ pc = "done" =>
                            events[Len(events)].final_variables[x] = Written(calls[a])[x]

\* A finished run in which a body node wrote k in pass 1 to a value the flow
\* did not start with, a body node of pass 2 read it before it was written
\* again, and k is in final_variables.
C21_Witness ==
    /\ pc = "done"
    /\ \E a, b \in 1..Len(calls) :
          /\ calls[a].by # 0 /\ calls[a].iteration = 1
          /\ "k" \in DOMAIN Written(calls[a])
          /\ ("k" \in DOMAIN flow_variables => flow_variables["k"] # Written(calls[a])["k"])
          /\ calls[b].by # 0 /\ calls[b].iteration = 2
          /\ LastWriteBefore(a, b, "k")
          /\ nodes[calls[b].node_id] = SetVar("j", [ref |-> "k"])
          /\ calls[b].response.result.variables["j"] = Written(calls[a])["k"]
    /\ "k" \in DOMAIN events[Len(events)].final_variables

\* ------------------------------------------------- unknown node types
\* The node types the two dispatch switches name.
ExecutableTypes ==
    {"http_request", "collection", "assertion", "script", "delay", "condition",
     "set_variable", "websocket", "graphql", "loop"}

\* C22: a dispatched node of a type that is no executable type (and no group)
\* has a result of status "error", whoever dispatched it; the build of its flow
\* does not fail for it and the run goes on to `done`.
C22_UnknownTypeIsError ==
    \A k \in 1..Len(calls) :
        LET n == calls[k].node_id IN
        (nodes[n].node_type \notin ExecutableTypes \cup {"group"}) =>
            /\ ~calls[k].response.raised
            /\ calls[k].response.result.status = "error"

\* --------------------------------------------------------- group nodes
\* C23: a group node is never dispatched, no node_start, node_result or
\* node_skipped event (yielded, or appended by a running loop) names it, and
\* node_results has no entry for it.
C23_GroupNeverRuns ==
    \A g \in DOMAIN nodes :
        (nodes[g].node_type = "group") =>
            /\ \A k \in 1..Len(calls) : calls[k].node_id # g
            /\ \A k \in 1..Len(Produced) :
                  (Produced[k].type \in {"node_start", "node_result", "node_skipped"})
                      => Produced[k].node_id # g
            /\ g \notin DOMAIN node_results

\* ------------------------------------------ edges at group nodes
\* The edges of the flow that join two non-group nodes.
EdgesOfNonGroup ==
    SelectSeq(edges, LAMBDA e : /\ e.source_node_id \in NonGroup(nodes)
                                /\ e.target_node_id \in NonGroup(nodes))

\* C24: for a flow whose non-group nodes form a DAG, whatever edges it has at
\* group nodes, the build does not fail, the execution order holds no group
\* node and it is the order _topological_sort returns for the flow without
\* the edges at group nodes.
C24_GroupEdgesIgnored ==
    (pc # "build" /\ ~CycleAmongNonGroup) =>
        /\ Started
        /\ \A k \in 1..Len(execution_order) :
              nodes[execution_order[k]].node_type # "group"
        /\ execution_order = TopologicalSort(nodes, EdgesOfNonGroup).order

\* ----------------------------------------------- placeholders
\* The text of one part of a value once its placeholder is replaced from `store`.
PartText(token, store) ==
    IF "ref" \in DOMAIN token
    THEN IF token.ref \in DOMAIN store THEN store[token.ref]
         ELSE "{{" \o token.ref \o "}}"
    ELSE token.lit

RECURSIVE TextOf(_, _)
TextOf(parts, store) ==
    IF parts = <<>> THEN "" ELSE PartText(Head(parts), store) \o TextOf(Tail(parts), store)

Substituted(value, store) ==
    IF "parts" \in DOMAIN value THEN TextOf(value.parts, store) ELSE PartText(value, store)

\* The last assignment of `assignments` to `key`.
LastAssignment(assignments, key) ==
    assignments[CHOOSE i \in 1..Len(assignments) :
                    /\ assignments[i].key = key
                    /\ \A m \in (i + 1)..Len(assignments) : assignments[m].key # key]

\* C25: when a set_variable node is dispatched, every key it assigns gets the
\* assigned value with each placeholder replaced by what the name holds in the
\* Variable Store just before the dispatch, and left as it is when the store
\* does not hold the name.
C25_PlaceholdersResolved ==
    [][(Len(calls') = Len(calls) + 1
           /\ nodes[calls'[Len(calls')].node_id].node_type = "set_variable") =>
          LET c == calls'[Len(calls')]
              assignments == nodes[c.node_id].config.assignments
              keys == {assignments[i].key : i \in 1..Len(assignments)} \ {""}
          IN /\ ~c.response.raised
             /\ DOMAIN c.response.result.variables = keys
             /\ \A key \in keys :
                   c.response.result.variables[key] =
                       Substituted(LastAssignment(assignments, key).value, flow_vars)
      ]_vars

\* The text node was dispatched when the store held s (which a script had
\* produced) and k but not u: its value is a, the two values and {{u}}.
C25_Witness ==
    \E a, b \in 1..Len(calls) :
        /\ a < b
        /\ nodes[calls[a].node_id] = ScriptNode
        /\ "s" \in DOMAIN Written(calls[a])
        /\ nodes[calls[b].node_id] = SetVarText
        /\ \E v \in {"v", "w", "x"} :
              calls[b].response.result.variables["t"] = "a" \o "1" \o v \o "{{u}}"

\* ------------------------------------------------------- comparisons
\* The step dispatches an assertion node whose single check is evaluated: it
\* has an upstream result and that result has not failed.
CheckEvaluated ==
    /\ AssertionDispatched
    /\ Len(nodes[LastCall].config.assertions) = 1
    /\ UpstreamAtDispatch # <<>>
    /\ UpstreamAtDispatch[1].status # "error"

TheCheck == nodes[LastCall].config.assertions[1]

\* What the evaluated check yielded.
CheckPassed == calls'[Len(calls')].response.result.assertion_results[1].passed

\* The document of the upstream response, <<>> when its body is no JSON.
UpstreamJson ==
    LET u == UpstreamAtDispatch[1] IN
    IF "response_body" \in DOMAIN u /\ "json" \in DOMAIN u.response_body
    THEN <<u.response_body.json>> ELSE <<>>

\* The lookup of field n fails: the body is no JSON or the document has no n.
LookupFails == UpstreamJson = <<>> \/ "n" \notin DOMAIN UpstreamJson[1]

\* The document has n and it is null.
FieldIsNull ==
    UpstreamJson # <<>> /\ "n" \in DOMAIN UpstreamJson[1] /\ UpstreamJson[1]["n"] = <<>>

\* C26: a json_path check whose actual value is null (the lookup fails, or the
\* field is null) passes exactly when the operator is eq and expected is the
\* empty string, whatever the operator and expected text.
C26_NullActual ==
    [][(CheckEvaluated /\ TheCheck.type = "json_path" /\ (LookupFails \/ FieldIsNull))
       => (CheckPassed <=> (TheCheck.operator = "eq" /\ TheCheck.expected = ""))
      ]_vars

\* A json_path check eq "" was evaluated against a body that is no JSON, and
\* passed.
C26_Witness ==
    \E k \in 1..Len(calls) :
        LET n == calls[k].node_id IN
        /\ nodes[n].node_type = "assertion"
        /\ nodes[n].config.assertions[1].type = "json_path"
        /\ nodes[n].config.assertions[1].operator = "eq"
        /\ nodes[n].config.assertions[1].expected = ""
        /\ ~calls[k].response.raised
        /\ Len(calls[k].response.result.assertion_results) = 1
        /\ calls[k].response.result.assertion_results[1].passed
        /\ \E m \in 1..(k - 1) :
              /\ ~calls[m].response.raised
              /\ "response_body" \in DOMAIN calls[m].response.result
              /\ calls[m].response.result.response_body = [text |-> "oops"]

\* The non-null actual value of the evaluated check: the status code of the
\* upstream result, or the field n of its document.
ActualValue ==
    IF TheCheck.type = "status_code"
    THEN [int |-> UpstreamAtDispatch[1].status_code]
    ELSE UpstreamJson[1]["n"][1]

HasActual ==
    IF TheCheck.type = "status_code"
    THEN "status_code" \in DOMAIN UpstreamAtDispatch[1]
    ELSE ~LookupFails /\ ~FieldIsNull

\* The texts that are numbers, and their values.
NumericTexts == {"200", "500", "200.0", "20"}

NumberOfText(t) ==
    CASE t = "200" -> 200 [] t = "200.0" -> 200 [] t = "500" -> 500 [] t = "20" -> 20

IsNumber(v) ==
    "int" \in DOMAIN v \/ "big" \in DOMAIN v
        \/ ("str" \in DOMAIN v /\ v.str \in NumericTexts)

\* The order of a number v and the number of a text; an int beyond the range
\* of a float is above every expected number.
EqualTo(v, e) ==
    /\ "big" \notin DOMAIN v
    /\ (IF "int" \in DOMAIN v THEN v.int ELSE NumberOfText(v.str)) = NumberOfText(e)

Below(v, e) ==
    /\ "big" \notin DOMAIN v
    /\ (IF "int" \in DOMAIN v THEN v.int ELSE NumberOfText(v.str)) < NumberOfText(e)

\* str(v) for the values that are texts or status codes.
TextOfValue(v) ==
    IF "str" \in DOMAIN v THEN v.str
    ELSE IF "int" \in DOMAIN v /\ v.int = 200 THEN "200"
    ELSE IF "int" \in DOMAIN v /\ v.int = 500 THEN "500" ELSE "big"

\* e occurs in a, for the texts in use.
OccursIn(e, a) ==
    e = "" \/ e = a \/ (a = "abc" /\ e = "bc") \/ (a = "200" /\ e = "20")
        \/ (a = "500" /\ e = "")

\* What the claim expects of a check with a non-null actual value: <<TRUE>> or
\* <<FALSE>>, or <<>> where it says nothing (contains on two numbers, regex,
\* an unknown operator).
ExpectedOfCompare(v, expected, operator) ==
    IF IsNumber(v) /\ expected \in NumericTexts
    THEN CASE operator = "eq" -> <<EqualTo(v, expected)>>
           [] operator = "neq" -> <<~EqualTo(v, expected)>>
           [] operator = "gt" -> <<~Below(v, expected) /\ ~EqualTo(v, expected)>>
           [] operator = "lt" -> <<Below(v, expected)>>
           [] operator = "gte" -> <<~Below(v, expected)>>
           [] operator = "lte" -> <<Below(v, expected) \/ EqualTo(v, expected)>>
           [] OTHER -> <<>>
    ELSE CASE operator = "eq" -> <<TextOfValue(v) = expected>>
           [] operator = "neq" -> <<TextOfValue(v) # expected>>
           [] operator = "contains" -> <<OccursIn(expected, TextOfValue(v))>>
           [] operator = "not_contains" -> <<~OccursIn(expected, TextOfValue(v))>>
           [] operator \in {"gt", "lt", "gte", "lte"} -> <<FALSE>>
           [] OTHER -> <<>>

\* C27: with an actual value and an expected text that are both numbers,
\* eq / neq / gt / lt / gte / lte give the numeric comparison; when either is
\* no number, eq / neq / contains / not_contains compare str(actual) with the
\* text and gt / lt / gte / lte are false.
C27_NumericThenString ==
    [][(CheckEvaluated /\ HasActual)
       => LET want == ExpectedOfCompare(ActualValue, TheCheck.expected, TheCheck.operator)
          IN want # <<>> => CheckPassed = want[1]
      ]_vars

\* The same holds for actual values that convert to a float without error.
CompareWithinFloatRange ==
    [][(CheckEvaluated /\ HasActual /\ "big" \notin DOMAIN ActualValue)
       => LET want == ExpectedOfCompare(ActualValue, TheCheck.expected, TheCheck.operator)
          IN want # <<>> => CheckPassed = want[1]
      ]_vars

\* --------------------------------------------------------- two runs
\* The two runs are of the same flow and the Request Executor answered the
\* calls they have in common alike.
SameFlowSameAnswers ==
    /\ other[1].nodes = nodes
    /\ other[1].edges = edges
    /\ other[1].flow_variables = flow_variables
    /\ \A k \in 1..Len(calls) : \A m \in 1..Len(other[1].calls) :
          (/\ nodes[calls[k].node_id].node_type = "http_request"
           /\ calls[k].node_id = other[1].calls[m].node_id
           /\ calls[k].by = other[1].calls[m].by
           /\ calls[k].iteration = other[1].calls[m].iteration)
              => calls[k].response = other[1].calls[m].response

\* C28: a step of the run that is driven leaves every local of the suspended
\* run as it is, and a switch resumes that run with exactly the locals it was
\* suspended with; so two finished runs of one flow that got the same answers
\* have the same events (final_variables and summary included), however their
\* steps interleaved.
C28_RunsIsolated ==
    [][other # <<>> =>
          /\ \/ other' = other
             \/ (other' = <<RunState>> /\ RunState' = other[1])
          /\ (pc' = "done" /\ other'[1].pc = "done" /\ SameFlowSameAnswers')
                => (events' = other'[1].events /\ calls' = other'[1].calls)
      ]_vars

\* Both runs are under way at once with different stores: each has dispatched
\* a node and neither is done; the suspended run wrote k, the driven run did
\* not.
C28_Witness ==
    /\ other # <<>>
    /\ pc = "walk" /\ calls # <<>>
    /\ other[1].pc = "walk" /\ other[1].calls # <<>>
    /\ "k" \in DOMAIN other[1].flow_vars
    /\ "k" \notin DOMAIN flow_vars
\* -------------------------------------------- skipped nodes are reported
\* The node_skipped events of the main walk for node x.
SkippedEventsOf(x) ==
    {k \in 1..Len(events) :
        /\ events[k].type = "node_skipped"
        /\ events[k].node_id = x
        /\ events[k].reason = "branch_not_taken"}

\* What is expected of a node the Branch Resolver has put into skipped_nodes.
ReportedAsSkipped(x) ==
    /\ \A k \in 1..Len(events) :
          (events[k].type \in {"node_start", "node_result"}) => events[k].node_id # x
    /\ pc = "done" =>
          /\ Cardinality({k \in 1..Len(events) :
                 events[k].type = "node_skipped" /\ events[k].node_id = x}) = 1
          /\ Cardinality(SkippedEventsOf(x)) = 1
          /\ x \in DOMAIN node_results
          /\ node_results[x].status = "skipped"

\* C29: every non-group node the Branch Resolver has added to skipped_nodes
\* gets no node_start and no node_result event, and by the end of the run the
\* walk has reached it: exactly one node_skipped event (branch_not_taken) and
\* a result of status skipped.
C29_SkippedReported ==
    \A x \in BranchSkipped \cap NonGroup(nodes) : ReportedAsSkipped(x)

\* The same holds for the flows without a loop node.
SkippedReportedWithoutLoops ==
    (\A n \in DOMAIN nodes : nodes[n].node_type # "loop") =>
        \A x \in BranchSkipped \cap NonGroup(nodes) : ReportedAsSkipped(x)
\* ------------------------------------------------------ the loop body
\* The nodes a path of the body may pass through: all but the done targets of
\* loop l and l itself.
BodyAllowed(l) == DOMAIN nodes \ (OtherTargets(l, "source-loop") \cup {l})

\* The nodes reachable from l's source-loop targets along such paths.
BodyReach(l) ==
    ReachSet(HandleTargets(l, "source-loop") \cap BodyAllowed(l),
             {p \in EdgePairs(edges) : p[1] \in BodyAllowed(l) /\ p[2] \in BodyAllowed(l)})

\* s holds every member of S exactly once and nothing else.
IsPermutationOf(s, S) ==
    /\ SeqToSet(s) = S
    /\ Len(s) = Cardinality(S)

\* Every edge between two nodes of s goes from the earlier to the later.
EdgesForward(s) ==
    \A p \in EdgePairs(edges) :
        (InSeq(p[1], s) /\ InSeq(p[2], s)) => IndexOf(p[1], s) < IndexOf(p[2], s)

BodyHasCycle(l) ==
    \E n \in BodyReach(l) :
        <<n, n>> \in PathPairs({p \in EdgePairs(edges) :
                                    p[1] \in BodyReach(l) /\ p[2] \in BodyReach(l)})

C31_IterationsCompleted ==
    \A l \in ReturnedLoops :
        /\ MainResultOf(l)[1].status = "success"
        /\ MainResultOf(l)[1].iterations_completed = Len(IterationEvents(l))

\* C31 as the code has it: the result has status "success"; when the body is
\* not empty iterations_completed is the number of loop_iteration events
\* emitted for the loop, in both modes and also when the condition stops the
\* loop early; when the body is empty iterations_completed is 0, whatever
\* number of loop_iteration events was emitted.
C31_IterationsCompletedWithBody ==
    \A l \in ReturnedLoops :
        /\ MainResultOf(l)[1].status = "success"
        /\ MainResultOf(l)[1].iterations_completed =
              IF BodyReach(l) # {} THEN Len(IterationEvents(l)) ELSE 0

\* A condition loop with a body has returned after one pass of the two its
\* max_iterations allows.
C31_Witness ==
    \E l \in ReturnedLoops :
        /\ nodes[l].config.mode = "condition"
        /\ nodes[l].config.max_iterations = 2
        /\ BodyReach(l) # {}
        /\ Len(IterationEvents(l)) = 1
        /\ MainResultOf(l)[1].iterations_completed = 1

\* ------------------------------------------------------------------ C32
\* The nodes an executor was invoked for, by the walk or by a loop.
DispatchedNodes == {calls[k].node_id : k \in 1..Len(calls)}

\* The last result yielded for node n: that of its last node_result event.
LastResultOf(n) ==
    LET I == {i \in 1..Len(events) :
                 events[i].type = "node_result" /\ events[i].node_id = n}
    IN events[CHOOSE i \in I : \A j \in I : j <= i].result

\* The entries of the assertion_results of the last results of the
\* dispatched nodes.
LastAssertionEntries ==
    UNION {{<<n, i>> : i \in 1..Len(AssertionResultsOf(LastResultOf(n)))} :
              n \in DispatchedNodes}

\* C32: every dispatched node, the loop-body nodes included, is counted by the
\* summary under passed_count or failed_count by its last result and never
\* under skipped_count, and the assertion_results of that result are counted
\* by the assertion counters.
C32_DispatchedCounted ==
    (pc = "done" /\ Started) =>
        LET s == DoneEvent.summary IN
        /\ s.passed_count =
              Cardinality({n \in DispatchedNodes : LastResultOf(n).status = "success"})
        /\ s.failed_count =
              Cardinality({n \in DispatchedNodes : LastResultOf(n).status = "error"})
        /\ s.skipped_count = Cardinality(DOMAIN node_results \ DispatchedNodes)
        /\ s.total_assertions = Cardinality(LastAssertionEntries)
        /\ s.passed_assertions =
              Cardinality({e \in LastAssertionEntries :
                  AssertionResultsOf(LastResultOf(e[1]))[e[2]].passed = TRUE})
        /\ s.failed_assertions =
              Cardinality({e \in LastAssertionEntries :
                  AssertionResultsOf(LastResultOf(e[1]))[e[2]].passed = FALSE})

\* The same holds for every flow whose loops have no body.
DispatchedCountedWithoutBody ==
    (\A l \in LoopNodes : BodyReach(l) = {}) => C32_DispatchedCounted

\* ------------------------------------------------------------------ C33
\* The step invokes the executor of an assertion or condition node that
\* searches for its upstream result: an assertion node with checks, or a
\* condition node with an expression.
UpstreamSearched ==
    /\ Len(calls') = Len(calls) + 1
    /\ LET n == nodes[LastCall] IN
       \/ n.node_type = "assertion" /\ n.config.assertions # <<>>
       \/ n.node_type = "condition" /\ n.config.expression # Null

\* The http_request / collection nodes upstream of n that were dispatched:
\* their stored result is that of a run, not of a skip.
DispatchedUpstream(n) ==
    {h \in Nodes :
        /\ <<h, n>> \in PathPairs(EdgePairs(edges))
        /\ nodes[h].node_type \in {"http_request", "collection"}
        /\ h \in DOMAIN node_results
        /\ node_results[h].status \in {"success", "error"}}

\* C33: the upstream result an assertion or condition node is evaluated
\* against is the result of a dispatched http_request / collection node
\* upstream of it, never the placeholder of a skipped node; when some upstream
\* node of these types was dispatched, a dispatched node's result is used.
C33_UpstreamWasDispatched ==
    [][UpstreamSearched =>
          /\ UpstreamAtDispatch # <<>> =>
                \E h \in DispatchedUpstream(LastCall) :
                    UpstreamAtDispatch[1] = node_results[h]
          /\ DispatchedUpstream(LastCall) # {} => UpstreamAtDispatch # <<>>
      ]_vars

\* ------------------------------------------------------------------ C34
\* The index of the last node_result / node_skipped event before event k, 0
\* when there is none.
PreviousOutcome(k) ==
    LET I == {i \in 1..(k - 1) : events[i].type \in {"node_result", "node_skipped"}}
    IN IF I = {} THEN 0 ELSE CHOOSE i \in I : \A j \in I : j <= i

\* The node_start events for the node of event k since the previous
\* node_result / node_skipped event.
StartsBefore(k) ==
    {i \in (PreviousOutcome(k) + 1)..(k - 1) :
        events[i].type = "node_start" /\ events[i].node_id = events[k].node_id}

\* C34: every node_result event for a node n is preceded, after the previous
\* node_result / node_skipped event of the stream, by exactly one node_start
\* event for n, the node_result events of loop-body nodes included.
C34_ResultAfterStart ==
    \A k \in 1..Len(events) :
        events[k].type = "node_result" => Cardinality(StartsBefore(k)) = 1

\* The same holds for the node_result events of the nodes the main walk
\* dispatched itself, the loop nodes excepted.
ResultAfterStartOutsideLoops ==
    \A k \in 1..Len(events) :
        (/\ events[k].type = "node_result"
         /\ ~Has(events[k], "iteration")
         /\ nodes[events[k].node_id].node_type # "loop")
            => Cardinality(StartsBefore(k)) = 1

\* ------------------------------------------------------------------ C35
\* No node of the flow reaches itself along the edges.
Acyclic == \A n \in Nodes : <<n, n>> \notin PathPairs(EdgePairs(edges))

CountOf(type) == Cardinality({i \in 1..Len(events) : events[i].type = type})

\* The top-level node events (those without an iteration), as <<type, node>>.
TopLevelEvents ==
    LET top == SelectSeq(events, LAMBDA ev :
                   /\ ev.type \in {"node_start", "node_skipped", "node_result"}
                   /\ ~Has(ev, "iteration"))
    IN [i \in 1..Len(top) |-> <<top[i].type, top[i].node_id>>]

TopLevelSkipped(n) == \E i \in 1..Len(TopLevelEvents) : TopLevelEvents[i] = <<"node_skipped", n>>

\* What the stream holds for the nodes of `order`: for each node, in that
\* order, its node_skipped event or its node_start and node_result events.
RECURSIVE ExpectedTopLevel(_)
ExpectedTopLevel(order) ==
    IF order = <<>> THEN <<>>
    ELSE LET n == Head(order)
             own == IF TopLevelSkipped(n) THEN <<(<<"node_skipped", n>>)>>
                    ELSE <<(<<"node_start", n>>), (<<"node_result", n>>)>>
         IN own \o ExpectedTopLevel(Tail(order))

\* C35: the stream of a finished run of an acyclic flow begins with its one
\* start event, ends with its one done event, has no error event, and holds
\* between them, for each non-group node and in execution order, either one
\* top-level node_skipped event or one top-level node_start followed by one
\* node_result.
C35_StreamShape ==
    (pc = "done" /\ Acyclic) =>
        /\ CountOf("start") = 1 /\ events[1].type = "start"
        /\ CountOf("done") = 1 /\ events[Len(events)].type = "done"
        /\ CountOf("error") = 0
        /\ TopLevelEvents =
              ExpectedTopLevel(SelectSeq(execution_order,
                                         LAMBDA n : nodes[n].node_type # "group"))
        /\ NonGroup(nodes) \subseteq SeqToSet(execution_order)

\* The same holds for the flows whose edges all join non-group nodes.
StreamShapeAmongNonGroup == EdgesAmongNonGroup => C35_StreamShape

\* ------------------------------------------------------------------ C36
\* C36: for every acyclic flow, total_nodes of the summary of `done` equals
\* total_nodes of `start`, which equals the number of non-group nodes.
C36_TotalNodesAgree ==
    (pc = "done" /\ Acyclic) =>
        /\ events[1].type = "start"
        /\ events[1].total_nodes = Cardinality(NonGroup(nodes))
        /\ DoneEvent.summary.total_nodes = events[1].total_nodes

\* The same holds for the flows whose edges all join non-group nodes.
TotalNodesAgreeAmongNonGroup == EdgesAmongNonGroup => C36_TotalNodesAgree

\* When the run has started, total_nodes of `start` is the number of
\* non-group nodes; the summary's total is that number plus the group nodes a
\* loop body has dispatched.
TotalNodesWithBodyGroups ==
    (pc = "done" /\ Started) =>
        /\ events[1].total_nodes = Cardinality(NonGroup(nodes))
        /\ DoneEvent.summary.total_nodes =
              events[1].total_nodes + Cardinality(DispatchedNodes \ NonGroup(nodes))

\* ------------------------------------------------------------------ C37
\* The edge an edge_active event names.
EdgeOf(ev) == edges[CHOOSE i \in 1..Len(edges) : edges[i].id = ev.edge_id]

\* Event k of the stream evs lies after a node_start of node n with no
\* node_result of n in between.
InsideNode(evs, k, n) ==
    \E i \in 1..(k - 1) :
        /\ evs[i].type = "node_start" /\ evs[i].node_id = n
        /\ \A j \in (i + 1)..(k - 1) :
              ~(evs[j].type = "node_result" /\ evs[j].node_id = n)

\* Edge e leaves the untaken handle of a condition / assertion node the run
\* has dispatched.
LeavesUntakenHandle(e) ==
    LET c == e.source_node_id IN
    /\ nodes[c].node_type \in {"condition", "assertion"}
    /\ c \in DOMAIN node_results
    /\ BranchOf(node_results[c]) # Null
    /\ e.source_handle = Untaken(BranchOf(node_results[c]))

\* C37: an edge_active event for edge e is emitted only between the node_start
\* and the node_result of e's target, only if e's source is not in
\* skipped_nodes, and never for an edge that leaves the untaken handle of a
\* dispatched condition / assertion node.
C37_EdgeActive ==
    [][\A k \in (Len(events) + 1)..Len(events') :
          events'[k].type = "edge_active" =>
              LET e == EdgeOf(events'[k]) IN
              /\ InsideNode(events', k, e.target_node_id)
              /\ \E j \in (k + 1)..Len(events') :
                    \/ events'[j].type = "node_result"
                       /\ events'[j].node_id = e.target_node_id
                    \/ pc' = "loop"
              /\ e.source_node_id \notin skipped_nodes
              /\ ~LeavesUntakenHandle(e)
      ]_vars

\* The first two parts of C37 hold: where and for which sources the events
\* are emitted.
EdgeActivePlacement ==
    [][\A k \in (Len(events) + 1)..Len(events') :
          events'[k].type = "edge_active" =>
              LET e == EdgeOf(events'[k]) IN
              /\ InsideNode(events', k, e.target_node_id)
              /\ e.source_node_id \notin skipped_nodes
      ]_vars

\* ------------------------------------------------------------------ C38
\* The edges between two nodes of the body of loop l.
BodyPairs(l) ==
    {p \in EdgePairs(edges) : p[1] \in BodyReach(l) /\ p[2] \in BodyReach(l)}

\* The body nodes of l reachable, inside the body, from the untaken-handle
\* edges of c but not from its other edges.
BodyOnlyUntaken(l, c, b) ==
    ReachSet(HandleTargets(c, Untaken(b)) \cap BodyReach(l), BodyPairs(l))
        \ ReachSet(OtherTargets(c, Untaken(b)) \cap BodyReach(l), BodyPairs(l))

\* A condition / assertion node dispatched in pass i of loop l took a branch
\* that leaves x reachable from its untaken handle only.
MarkedInPass(l, x, i) ==
    \E k \in 1..Len(calls) :
        /\ calls[k].by = l /\ calls[k].iteration = i
        /\ nodes[calls[k].node_id].node_type \in {"condition", "assertion"}
        /\ ~calls[k].response.raised
        /\ BranchOf(calls[k].response.result) # Null
        /\ x \in BodyOnlyUntaken(l, calls[k].node_id, BranchOf(calls[k].response.result))

\* C38: the per-iteration skip set is empty at the start of every iteration,
\* and in every pass a node of the body order is dispatched exactly when no
\* branch taken in that pass leaves it unreachable, whatever was skipped in the
\* passes before.
C38_SkipMarksPerIteration ==
    [][/\ (loop' # <<>> /\ (loop = <<>> \/ loop'[1].i # Frame.i))
            => loop'[1].body_skipped = {}
       /\ (InLoop /\ Frame.phase = "body" /\ loop' # <<>> /\ loop'[1].phase = "next")
            => \A x \in SeqToSet(Frame.body_order) :
                  (LoopCalls(Frame.node, x, Frame.i) # {})
                      <=> ~MarkedInPass(Frame.node, x, Frame.i)
      ]_vars

\* A loop has returned whose body node x was skipped in pass 1 and dispatched
\* in pass 2.
C38_Witness ==
    \E l \in ReturnedLoops : \E x \in BodyReach(l) :
        /\ BodySkippedEvent(x, 1)
        /\ LoopCalls(l, x, 1) = {}
        /\ LoopCalls(l, x, 2) # {}

\* ------------------------------------------------------------------ C39
\* The executor invocations for node n made by `by` (0: the main walk).
CallsBy(n, by) == {k \in 1..Len(calls) : calls[k].node_id = n /\ calls[k].by = by}

\* The main walk invokes a node's executor at most once; a loop invokes the
\* executors of its body nodes only, each at most max_iterations times.
InvocationsBounded ==
    \A n \in DOMAIN nodes :
        /\ Cardinality(CallsBy(n, 0)) <= 1
        /\ \A l \in DOMAIN nodes :
              Cardinality(CallsBy(n, l)) <=
                  (IF nodes[l].node_type = "loop" /\ n \in BodyReach(l)
                   THEN nodes[l].config.max_iterations ELSE 0)

RunDone == pc = "done" /\ events[Len(events)].type = "done"

\* C39: every run terminates: the executor invocations are bounded (each node
\* at most once by the main walk and, for a node of a loop body, at most
\* max_iterations times by its loop), and the done event is eventually
\* emitted.
C39_Terminates == []InvocationsBounded /\ <>RunDone

\* A finished run in which a loop invoked the executor of a body node
\* max_iterations = 2 times.
C39_Witness ==
    /\ RunDone
    /\ \E l \in LoopNodes : \E n \in BodyReach(l) :
          /\ nodes[l].config.max_iterations = 2
          /\ Cardinality(CallsBy(n, l)) = 2

====
